---- MODULE Spec2Model ----
(***************************************************************************)
(* Chunked transfer protocol of cloud-gram-store: FileService              *)
(* (src/src/services/file.js) on top of TelegramService                    *)
(* (src/src/services/telegram.js) and the metadata store whose schema is   *)
(* src/schema.sql.  Every request handler is a process-local sequence of   *)
(* steps, one step per awaited call; the tables and the remote backend     *)
(* are the only shared state.                                              *)
(***************************************************************************)
EXTENDS Integers, Sequences, FiniteSets, TLC

(* ---------------------------------------------------------------------- *)
(* Program constants (scaled down: the unit is one byte instead of 1 MB)   *)
(* ---------------------------------------------------------------------- *)
\* this.chunkSize = 5 * 1024 * 1024, scaled to 2
chunkSize == 2
\* const MAX_FILE_SIZE = 100 * 1024 * 1024, scaled to 3 (one full chunk and a partial one)
MAX_FILE_SIZE == 3

(* ---------------------------------------------------------------------- *)
(* Bounds of the model                                                     *)
(* ---------------------------------------------------------------------- *)
\* longest byte sequence handed to uploadFile (one more than MAX_FILE_SIZE)
MaxLen == 4
\* number of objects the remote backend can hold in one run
MaxRemote == 2
\* number of File rows ever created in one run (AUTOINCREMENT ids 1..MaxFiles)
MaxFiles == 1
\* largest chunk_index / declared chunk count / declared size a caller sends
MaxIndex == 1
\* largest file size a caller declares to mergeFileChunks
MaxDeclSize == 1
\* largest total size and largest chunk size the chunking loop is run with on its own
MaxTotal == 6
MaxChunk == 3
\* folders and files of the trees deleteFolder is run on
MaxFolders == 3
MaxTreeFiles == 2
\* longest request path, in segments, the router is run on
MaxSegs == 4

Byte == {0, 1}
UploadIds == {"u1"}
\* the pre-sliced chunks a client sends to uploadFileChunk: two sizes, distinct bytes
ChunkInputs == {<<0>>, <<1, 0>>}
Procs == {1}
\* a second worker, serving a request while the first one is in its handler
Readers == {2}
AllProcs == Procs \cup Readers

Min(a, b) == IF a < b THEN a ELSE b

\* Math.ceil(a / b) for a >= 0, b > 0
Ceil(a, b) == (a + b - 1) \div b

\* all sequences over S of length lo..hi
SeqsOf(S, lo, hi) == UNION {[1..n -> S] : n \in lo..hi}

\* Uint8Array.prototype.slice(start, end): the bytes at offsets start..end-1
slice(s, start, end) == SubSeq(s, start + 1, end)

VARIABLES
    files,          \* table files: sequence of rows [id, size] in rowid order
    file_chunks,    \* table file_chunks: rows [file_id, chunk_index, telegram_file_id, size]
    temp_chunks,    \* table temp_chunks: rows [upload_id, chunk_index, telegram_file_id, size]
    nextFileId,     \* AUTOINCREMENT counter of files.id
    remote,         \* remote backend: remote[h] = bytes stored under handle h
    pc,             \* pc[p]: position of request p in its handler
    loc,            \* loc[p]: local variables of request p
    uploaded,       \* history: file id -> bytes of a single-shot upload that returned it
    committed,      \* history: ids of the Files returned by a successful upload or merge
    client,         \* script of the scripted client (used by the client specifications only)
    plan            \* a component run on its own: the chunking loop, the transfer
                    \* loops, deleteFolder, the request router (NoPlan elsewhere)

vars == <<files, file_chunks, temp_chunks, nextFileId, remote,
          pc, loc, uploaded, committed, client, plan>>

(* ---------------------------------------------------------------------- *)
(* TelegramService: pure helpers                                           *)
(* ---------------------------------------------------------------------- *)
\* const totalChunks = Math.ceil(fileData.length / this.chunkSize)
totalChunksOf(fileData) == Ceil(Len(fileData), chunkSize)

\* startOffset, endOffset and the slice of chunk i in the upload loop
chunkOf(fileData, i) ==
    LET startOffset == i * chunkSize
        endOffset == Min(startOffset + chunkSize, Len(fileData))
    IN slice(fileData, startOffset, endOffset)

\* variant: the chunks are taken in the order the store returned them
sortChunks_unsorted(chunks) == chunks

\* chunks.sort((a, b) => a.chunk_index - b.chunk_index), a stable sort
RECURSIVE sortChunks(_)
sortChunks(chunks) ==
    IF chunks = <<>> THEN <<>>
    ELSE LET pre == sortChunks(SubSeq(chunks, 1, Len(chunks) - 1))
             r == chunks[Len(chunks)]
             k == Cardinality({j \in 1..Len(pre) : pre[j].chunk_index <= r.chunk_index})
         IN SubSeq(pre, 1, k) \o <<r>> \o SubSeq(pre, k + 1, Len(pre))

\* mergeChunks(chunkDataArray): the chunks copied one after the other
RECURSIVE mergeChunks(_)
mergeChunks(chunkDataArray) ==
    IF chunkDataArray = <<>> THEN <<>>
    ELSE Head(chunkDataArray) \o mergeChunks(Tail(chunkDataArray))

\* deleteTelegramFileById(telegram_file_id): the deleteMessage request is commented out,
\* the object stays in the remote backend and nothing is thrown
deleteTelegramFileById(r, telegram_file_id) == r

\* for (const chunk of chunks) await this.deleteTelegramFileById(chunk.telegram_file_id)
RECURSIVE deleteChunks(_, _)
deleteChunks(r, chunks) ==
    IF chunks = <<>> THEN r
    ELSE deleteChunks(deleteTelegramFileById(r, Head(chunks).telegram_file_id), Tail(chunks))

(* ---------------------------------------------------------------------- *)
(* Metadata store (DatabaseService over the tables of schema.sql)          *)
(* ---------------------------------------------------------------------- *)
getFileById(id) == SelectSeq(files, LAMBDA r : r.id = id)

getFileChunks(fileId) == SelectSeq(file_chunks, LAMBDA r : r.file_id = fileId)

getTempChunks(uploadId) == SelectSeq(temp_chunks, LAMBDA r : r.upload_id = uploadId)

\* INSERT INTO files: the row gets the next AUTOINCREMENT id
createFile(size) == Append(files, [id |-> nextFileId, size |-> size])

\* UNIQUE(file_id, chunk_index) of file_chunks
fileChunkExists(fileId, chunkIndex) ==
    \E j \in 1..Len(file_chunks) :
        file_chunks[j].file_id = fileId /\ file_chunks[j].chunk_index = chunkIndex

createFileChunk(fileId, chunkIndex, telegramFileId, size) ==
    Append(file_chunks, [file_id |-> fileId, chunk_index |-> chunkIndex,
                         telegram_file_id |-> telegramFileId, size |-> size])

\* variant: temp_chunks without its UNIQUE constraint
tempChunkExists_never(uploadId, chunkIndex) == FALSE

\* UNIQUE(upload_id, chunk_index) of temp_chunks
tempChunkExists(uploadId, chunkIndex) ==
    \E j \in 1..Len(temp_chunks) :
        temp_chunks[j].upload_id = uploadId /\ temp_chunks[j].chunk_index = chunkIndex

createTempChunk(tbl, uploadId, chunkIndex, telegramFileId, size) ==
    Append(tbl, [upload_id |-> uploadId, chunk_index |-> chunkIndex,
                 telegram_file_id |-> telegramFileId, size |-> size])

deleteTempChunks(uploadId) == SelectSeq(temp_chunks, LAMBDA r : r.upload_id # uploadId)

\* DELETE FROM files WHERE id = ?; file_chunks rows go by ON DELETE CASCADE
deleteFileRow(fileId) == SelectSeq(files, LAMBDA r : r.id # fileId)
cascadeFileChunks(fileId) == SelectSeq(file_chunks, LAMBDA r : r.file_id # fileId)

(* ---------------------------------------------------------------------- *)
(* Requests                                                                *)
(* ---------------------------------------------------------------------- *)
NoLoc == [op |-> "idle", uploadId |-> "", fileId |-> 0, chunkIndex |-> 0,
          data |-> <<>>, fileSize |-> 0, expected |-> 0, i |-> 0,
          list |-> <<>>, acc |-> <<>>, handle |-> 0,
          result |-> "none", err |-> "", cleanup |-> "none", cleared |-> -1,
          staged |-> 0, following |-> FALSE,
          put |-> {}, deleted |-> {}, dup |-> FALSE, gets |-> 0]

\* no scripted client: requests arrive in any order
NoClient == [phase |-> "free", n |-> 0, mode |-> "", had |-> {}, since |-> {},
             cleaned |-> FALSE]

\* empty tables, fresh AUTOINCREMENT counter, empty remote chat, idle workers
InitStore ==
    /\ files = <<>>
    /\ file_chunks = <<>>
    /\ temp_chunks = <<>>
    /\ nextFileId = 1
    /\ remote = <<>>
    /\ pc = [p \in AllProcs |-> "idle"]
    /\ loc = [p \in AllProcs |-> NoLoc]
    /\ uploaded = {}
    /\ committed = {}

\* the chunking loop is not running
NoPlan == [mode |-> "none"]

Init == InitStore /\ client = NoClient /\ plan = NoPlan

\* the File rows the store has room for: MaxFiles, and MaxFiles for each of the two
\* workers when both of them merge the same upload_id
FileCap == IF plan.mode = "race" THEN 2 * MaxFiles ELSE MaxFiles

\* a worker serves one request at a time
Free(p) == pc[p] = "idle"

\* the response is handed to the client and the worker is free again
respond(p) ==
    /\ pc[p] = "done"
    /\ pc' = [pc EXCEPT ![p] = "idle"]
    /\ loc' = [loc EXCEPT ![p] = NoLoc]
    /\ UNCHANGED <<files, file_chunks, temp_chunks, nextFileId, remote, uploaded, committed>>

\* the request returns: result r, error e; its working variables go out of scope
\* (a download keeps the bytes it returns)
Return(l, r, e) ==
    [l EXCEPT !.result = r, !.err = e, !.list = <<>>, !.acc = <<>>, !.i = 0, !.handle = 0,
              !.data = IF l.op = "downloadFile" THEN @ ELSE <<>>]

RECURSIVE SumSizes(_)
SumSizes(rows) == IF rows = <<>> THEN 0 ELSE Head(rows).size + SumSizes(Tail(rows))

Indices(rows) == {rows[j].chunk_index : j \in 1..Len(rows)}
Handles(rows) == {rows[j].telegram_file_id : j \in 1..Len(rows)}

\* variant: the loop stops after the first chunk
deleteAttempts_firstOnly(chunks) ==
    IF chunks = <<>> THEN {} ELSE {chunks[1].telegram_file_id}

\* the handles deleteTelegramFileById has been called with when the loop over chunks is
\* through: every one of them, a call that throws being caught inside the loop
deleteAttempts(chunks) == Handles(chunks)

(* ---------------------------------------------------------------------- *)
(* FileService.uploadFile (single-shot) with TelegramService.uploadFile    *)
(* ---------------------------------------------------------------------- *)
\* variant: a file of exactly the ceiling is rejected as well
exceedsLimit_atCeiling(fileData) == Len(fileData) >= MAX_FILE_SIZE

\* if (fileData.length > MAX_FILE_SIZE) throw
exceedsLimit(fileData) == Len(fileData) > MAX_FILE_SIZE

\* file.arrayBuffer(), the size check and the chunk count
uploadFile_begin(p, fileData) ==
    /\ Free(p)
    /\ LET l == [NoLoc EXCEPT !.op = "uploadFile", !.data = fileData,
                              !.fileSize = Len(fileData)]
       IN IF exceedsLimit(fileData)
          THEN /\ pc' = [pc EXCEPT ![p] = "done"]
               /\ loc' = [loc EXCEPT ![p] = Return(l, "error", "SizeLimit")]
          ELSE /\ pc' = [pc EXCEPT ![p] = IF totalChunksOf(fileData) = 0
                                          THEN "uf_createFile" ELSE "uf_uploadChunk"]
               /\ loc' = [loc EXCEPT ![p] = [l EXCEPT !.expected = totalChunksOf(fileData)]]
    /\ UNCHANGED <<files, file_chunks, temp_chunks, nextFileId, remote,
                   uploaded, committed>>

\* variant: a chunk whose put failed is skipped and the loop goes on
uploadFile_uploadChunk_skipsFailed(p) ==
    /\ pc[p] = "uf_uploadChunk"
    /\ LET l == loc[p]
           chunk == chunkOf(l.data, l.i)
       IN \/ /\ Len(remote) < MaxRemote
             /\ remote' = Append(remote, chunk)
             /\ loc' = [loc EXCEPT ![p] =
                    [l EXCEPT !.list = Append(l.list, [index |-> l.i,
                                                       telegramFileId |-> Len(remote) + 1,
                                                       size |-> Len(chunk)]),
                              !.i = l.i + 1,
                              !.put = @ \cup {Len(remote) + 1}]]
          \/ /\ remote' = remote
             /\ loc' = [loc EXCEPT ![p] = [l EXCEPT !.i = l.i + 1]]
    /\ pc' = [pc EXCEPT ![p] = IF loc[p].i + 1 < loc[p].expected
                               THEN "uf_uploadChunk" ELSE "uf_createFile"]
    /\ UNCHANGED <<files, file_chunks, temp_chunks, nextFileId,
                   uploaded, committed>>

\* one pass of the loop: uploadChunk(chunk, chunkFileName) and messageIds.push
uploadFile_uploadChunk(p) ==
    /\ pc[p] = "uf_uploadChunk"
    /\ LET l == loc[p]
           chunk == chunkOf(l.data, l.i)
       IN \/ /\ Len(remote) < MaxRemote
             /\ remote' = Append(remote, chunk)
             /\ loc' = [loc EXCEPT ![p] =
                    [l EXCEPT !.list = Append(l.list, [index |-> l.i,
                                                       telegramFileId |-> Len(remote) + 1,
                                                       size |-> Len(chunk)]),
                              !.i = l.i + 1,
                              !.put = @ \cup {Len(remote) + 1}]]
             /\ pc' = [pc EXCEPT ![p] = IF l.i + 1 < l.expected
                                        THEN "uf_uploadChunk" ELSE "uf_createFile"]
          \/ /\ remote' = remote
             /\ loc' = [loc EXCEPT ![p] = Return(l, "error", "ChunkUploadFailed")]
             /\ pc' = [pc EXCEPT ![p] = "done"]
    /\ UNCHANGED <<files, file_chunks, temp_chunks, nextFileId,
                   uploaded, committed>>

\* this.db.createFile(file.name, folderId, file.size, mimeType)
uploadFile_createFile(p) ==
    /\ pc[p] = "uf_createFile"
    /\ LET l == loc[p]
       IN \/ /\ nextFileId <= FileCap
             /\ files' = createFile(l.fileSize)
             /\ nextFileId' = nextFileId + 1
             /\ IF Len(l.list) = 0
                THEN /\ pc' = [pc EXCEPT ![p] = "done"]
                     /\ loc' = [loc EXCEPT ![p] =
                            Return([l EXCEPT !.fileId = nextFileId], "ok", "")]
                     /\ uploaded' = uploaded \cup {[id |-> nextFileId, data |-> l.data]}
                     /\ committed' = committed \cup {nextFileId}
                ELSE /\ pc' = [pc EXCEPT ![p] = "uf_createFileChunk"]
                     /\ loc' = [loc EXCEPT ![p] = [l EXCEPT !.fileId = nextFileId, !.i = 0]]
                     /\ UNCHANGED <<uploaded, committed>>
          \/ /\ pc' = [pc EXCEPT ![p] = "done"]
             /\ loc' = [loc EXCEPT ![p] = Return(l, "error", "Db")]
             /\ UNCHANGED <<files, nextFileId, uploaded, committed>>
    /\ UNCHANGED <<file_chunks, temp_chunks, remote>>

\* variant: the FileChunk rows are written from the last chunk to the first
uploadFile_createFileChunk_descending(p) ==
    /\ pc[p] = "uf_createFileChunk"
    /\ LET l == loc[p]
           chunk == l.list[Len(l.list) - l.i]
       IN /\ ~fileChunkExists(l.fileId, chunk.index)
          /\ file_chunks' = createFileChunk(l.fileId, chunk.index,
                                            chunk.telegramFileId, chunk.size)
          /\ IF l.i + 1 < Len(l.list)
             THEN /\ pc' = pc
                  /\ loc' = [loc EXCEPT ![p] = [l EXCEPT !.i = l.i + 1]]
                  /\ UNCHANGED <<uploaded, committed>>
             ELSE /\ pc' = [pc EXCEPT ![p] = "done"]
                  /\ loc' = [loc EXCEPT ![p] = Return(l, "ok", "")]
                  /\ uploaded' = uploaded \cup {[id |-> l.fileId, data |-> l.data]}
                  /\ committed' = committed \cup {l.fileId}
    /\ UNCHANGED <<files, temp_chunks, nextFileId, remote>>

\* for (const chunk of telegramChunks) this.db.createFileChunk(...)
uploadFile_createFileChunk(p) ==
    /\ pc[p] = "uf_createFileChunk"
    /\ LET l == loc[p]
           chunk == l.list[l.i + 1]
       IN \/ /\ ~fileChunkExists(l.fileId, chunk.index)
             /\ file_chunks' = createFileChunk(l.fileId, chunk.index,
                                               chunk.telegramFileId, chunk.size)
             /\ IF l.i + 1 < Len(l.list)
                THEN /\ pc' = pc
                     /\ loc' = [loc EXCEPT ![p] = [l EXCEPT !.i = l.i + 1]]
                     /\ UNCHANGED <<uploaded, committed>>
                ELSE /\ pc' = [pc EXCEPT ![p] = "done"]
                     /\ loc' = [loc EXCEPT ![p] = Return(l, "ok", "")]
                     /\ uploaded' = uploaded \cup {[id |-> l.fileId, data |-> l.data]}
                     /\ committed' = committed \cup {l.fileId}
          \/ /\ pc' = [pc EXCEPT ![p] = "done"]
             /\ loc' = [loc EXCEPT ![p] = Return(l, "error", "Db")]
             /\ UNCHANGED <<file_chunks, uploaded, committed>>
    /\ UNCHANGED <<files, temp_chunks, nextFileId, remote>>

(* ---------------------------------------------------------------------- *)
(* FileService.downloadFile with TelegramService.downloadFile              *)
(* ---------------------------------------------------------------------- *)
\* GET /api/files/:id/download: null is answered 404, bytes 200, a throw 500
downloadStatus(result) ==
    IF result = "null" THEN 404 ELSE IF result = "ok" THEN 200 ELSE 500

\* variant: a missing File row is not checked for
downloadFile_getFileById_unchecked(p, fileId) ==
    /\ Free(p)
    /\ pc' = [pc EXCEPT ![p] = "df_getFileChunks"]
    /\ loc' = [loc EXCEPT ![p] = [NoLoc EXCEPT !.op = "downloadFile", !.fileId = fileId]]
    /\ UNCHANGED <<files, file_chunks, temp_chunks, nextFileId, remote,
                   uploaded, committed>>

\* this.db.getFileById(fileId); return null when there is no row
downloadFile_getFileById(p, fileId) ==
    /\ Free(p)
    /\ LET l == [NoLoc EXCEPT !.op = "downloadFile", !.fileId = fileId]
           rows == getFileById(fileId)
       IN \/ /\ rows = <<>>
             /\ pc' = [pc EXCEPT ![p] = "done"]
             /\ loc' = [loc EXCEPT ![p] = Return(l, "null", "")]
          \/ /\ rows # <<>>
             /\ pc' = [pc EXCEPT ![p] = "df_getFileChunks"]
             /\ loc' = [loc EXCEPT ![p] =
                    [l EXCEPT !.fileSize = rows[1].size,
                              !.following = \E u \in uploaded : u.id = fileId]]
          \/ /\ pc' = [pc EXCEPT ![p] = "done"]
             /\ loc' = [loc EXCEPT ![p] = Return(l, "error", "Db")]
    /\ UNCHANGED <<files, file_chunks, temp_chunks, nextFileId, remote,
                   uploaded, committed>>

\* variant: an empty chunk list is handed on and merged into an empty result
downloadFile_getFileChunks_unchecked(p) ==
    /\ pc[p] = "df_getFileChunks"
    /\ LET l == loc[p]
           chunks == getFileChunks(l.fileId)
       IN \/ /\ chunks = <<>>
             /\ pc' = [pc EXCEPT ![p] = "done"]
             /\ loc' = [loc EXCEPT ![p] =
                    Return([l EXCEPT !.data = mergeChunks(<<>>)], "ok", "")]
          \/ /\ chunks # <<>>
             /\ pc' = [pc EXCEPT ![p] = "df_downloadChunk"]
             /\ loc' = [loc EXCEPT ![p] = [l EXCEPT !.list = sortChunks(chunks), !.i = 0,
                                                    !.staged = Len(chunks)]]
    /\ UNCHANGED <<files, file_chunks, temp_chunks, nextFileId, remote,
                   uploaded, committed>>

\* this.db.getFileChunks(fileId); throw when empty; then the sort of telegram.downloadFile
downloadFile_getFileChunks(p) ==
    /\ pc[p] = "df_getFileChunks"
    /\ LET l == loc[p]
           chunks == getFileChunks(l.fileId)
       IN \/ /\ chunks = <<>>
             /\ pc' = [pc EXCEPT ![p] = "done"]
             /\ loc' = [loc EXCEPT ![p] = Return(l, "error", "MissingChunks")]
          \/ /\ chunks # <<>>
             /\ pc' = [pc EXCEPT ![p] = "df_downloadChunk"]
             /\ loc' = [loc EXCEPT ![p] = [l EXCEPT !.list = sortChunks(chunks), !.i = 0,
                                                    !.staged = Len(chunks)]]
          \/ /\ pc' = [pc EXCEPT ![p] = "done"]
             /\ loc' = [loc EXCEPT ![p] = Return(l, "error", "Db")]
    /\ UNCHANGED <<files, file_chunks, temp_chunks, nextFileId, remote,
                   uploaded, committed>>

\* one pass of the loop: downloadChunk(chunk.telegram_file_id); after the last, mergeChunks
downloadFile_downloadChunk(p) ==
    /\ pc[p] = "df_downloadChunk"
    /\ LET l == loc[p]
           chunk == l.list[l.i + 1]
           got == Append(l.acc, remote[chunk.telegram_file_id])
       IN \/ /\ l.i + 1 < Len(l.list)
             /\ pc' = pc
             /\ loc' = [loc EXCEPT ![p] = [l EXCEPT !.acc = got, !.i = l.i + 1,
                                                    !.gets = @ + 1]]
          \/ /\ l.i + 1 = Len(l.list)
             /\ pc' = [pc EXCEPT ![p] = "done"]
             /\ loc' = [loc EXCEPT ![p] =
                    Return([l EXCEPT !.data = mergeChunks(got), !.gets = @ + 1], "ok", "")]
          \/ /\ pc' = [pc EXCEPT ![p] = "done"]
             /\ loc' = [loc EXCEPT ![p] =
                    Return([l EXCEPT !.gets = @ + 1], "error", "RemoteGet")]
    /\ UNCHANGED <<files, file_chunks, temp_chunks, nextFileId, remote,
                   uploaded, committed>>

(* ---------------------------------------------------------------------- *)
(* FileService.deleteFile with TelegramService.deleteFile                  *)
(* ---------------------------------------------------------------------- *)
\* this.db.getFileChunks(fileId), then deleteTelegramFileById for each chunk
deleteFile_getFileChunks(p, fileId) ==
    /\ Free(p)
    /\ LET l == [NoLoc EXCEPT !.op = "deleteFile", !.fileId = fileId]
           chunks == getFileChunks(fileId)
       IN \/ /\ remote' = deleteChunks(remote, chunks)
             /\ pc' = [pc EXCEPT ![p] = "del_deleteFile"]
             /\ loc' = [loc EXCEPT ![p] = [l EXCEPT !.deleted = deleteAttempts(chunks),
                                                    !.staged = Len(chunks)]]
          \/ /\ remote' = remote
             /\ pc' = [pc EXCEPT ![p] = "done"]
             /\ loc' = [loc EXCEPT ![p] = Return(l, "error", "Db")]
    /\ UNCHANGED <<files, file_chunks, temp_chunks, nextFileId,
                   uploaded, committed>>

\* variant: the File row is not deleted
deleteFile_deleteFile_skipped(p) ==
    /\ pc[p] = "del_deleteFile"
    /\ pc' = [pc EXCEPT ![p] = "done"]
    /\ loc' = [loc EXCEPT ![p] = Return(loc[p], "ok", "")]
    /\ UNCHANGED <<files, file_chunks, temp_chunks, nextFileId, remote, uploaded, committed>>

\* this.db.deleteFile(fileId)
deleteFile_deleteFile(p) ==
    /\ pc[p] = "del_deleteFile"
    /\ LET l == loc[p]
       IN \/ /\ files' = deleteFileRow(l.fileId)
             /\ file_chunks' = cascadeFileChunks(l.fileId)
             /\ uploaded' = {u \in uploaded : u.id # l.fileId}
             /\ committed' = committed \ {l.fileId}
             /\ pc' = [pc EXCEPT ![p] = "done"]
             /\ loc' = [loc EXCEPT ![p] = Return(l, "ok", "")]
          \/ /\ pc' = [pc EXCEPT ![p] = "done"]
             /\ loc' = [loc EXCEPT ![p] = Return(l, "error", "Db")]
             /\ UNCHANGED <<files, file_chunks, uploaded, committed>>
    /\ UNCHANGED <<temp_chunks, nextFileId, remote>>

(* ---------------------------------------------------------------------- *)
(* FileService.uploadFileChunk (resumable mode, one pre-sliced chunk)      *)
(* ---------------------------------------------------------------------- *)
\* variant: a chunk whose put failed is staged all the same, without a remote handle
uploadFileChunk_uploadChunk_stagesFailed(p, uploadId, chunkIndex, chunkData) ==
    /\ Free(p)
    /\ LET l == [NoLoc EXCEPT !.op = "uploadFileChunk", !.uploadId = uploadId,
                              !.chunkIndex = chunkIndex, !.data = chunkData,
                              !.dup = tempChunkExists(uploadId, chunkIndex)]
       IN \/ /\ Len(remote) < MaxRemote
             /\ remote' = Append(remote, chunkData)
             /\ loc' = [loc EXCEPT ![p] = [l EXCEPT !.handle = Len(remote) + 1,
                                                    !.put = {Len(remote) + 1}]]
          \/ /\ remote' = remote
             /\ loc' = [loc EXCEPT ![p] = [l EXCEPT !.err = "ChunkUploadFailed"]]
    /\ pc' = [pc EXCEPT ![p] = "ufc_createTempChunk"]
    /\ UNCHANGED <<files, file_chunks, temp_chunks, nextFileId,
                   uploaded, committed>>

\* chunkFile.arrayBuffer() and this.telegram.uploadChunk(chunkData, chunkFileName)
uploadFileChunk_uploadChunk(p, uploadId, chunkIndex, chunkData) ==
    /\ Free(p)
    /\ LET l == [NoLoc EXCEPT !.op = "uploadFileChunk", !.uploadId = uploadId,
                              !.chunkIndex = chunkIndex, !.data = chunkData,
                              !.dup = tempChunkExists(uploadId, chunkIndex)]
       IN \/ /\ Len(remote) < MaxRemote
             /\ remote' = Append(remote, chunkData)
             /\ loc' = [loc EXCEPT ![p] = [l EXCEPT !.handle = Len(remote) + 1,
                                                    !.put = {Len(remote) + 1}]]
             /\ pc' = [pc EXCEPT ![p] = "ufc_createTempChunk"]
          \/ /\ remote' = remote
             /\ loc' = [loc EXCEPT ![p] = Return(l, "error", "ChunkUploadFailed")]
             /\ pc' = [pc EXCEPT ![p] = "done"]
    /\ UNCHANGED <<files, file_chunks, temp_chunks, nextFileId,
                   uploaded, committed>>

\* this.db.createTempChunk(uploadId, chunkIndex, telegramFileId, chunkData.length, ...)
\* on a row that exists for (upload_id, chunk_index) the store replaces it or rejects
uploadFileChunk_createTempChunk(p) ==
    /\ pc[p] = "ufc_createTempChunk"
    /\ LET l == loc[p]
           others == SelectSeq(temp_chunks, LAMBDA r :
                         ~(r.upload_id = l.uploadId /\ r.chunk_index = l.chunkIndex))
       IN \/ /\ ~tempChunkExists(l.uploadId, l.chunkIndex)
             /\ temp_chunks' = createTempChunk(temp_chunks, l.uploadId, l.chunkIndex,
                                               l.handle, Len(l.data))
             /\ loc' = [loc EXCEPT ![p] = Return(l, "ok", "")]
          \/ /\ tempChunkExists(l.uploadId, l.chunkIndex)
             /\ temp_chunks' = createTempChunk(others, l.uploadId, l.chunkIndex,
                                               l.handle, Len(l.data))
             /\ loc' = [loc EXCEPT ![p] = Return(l, "ok", "")]
          \/ /\ UNCHANGED <<temp_chunks>>
             /\ loc' = [loc EXCEPT ![p] = Return(l, "error", "Db")]
    /\ pc' = [pc EXCEPT ![p] = "done"]
    /\ UNCHANGED <<files, file_chunks, nextFileId, remote,
                   uploaded, committed>>

(* ---------------------------------------------------------------------- *)
(* FileService.mergeFileChunks                                             *)
(* ---------------------------------------------------------------------- *)
\* if (!tempChunks || tempChunks.length === 0) throw
noTempChunks(tempChunks) == Len(tempChunks) = 0

\* variant: only a surplus of staged chunks is rejected
chunkCountMismatch_surplusOnly(tempChunks, expectedChunks) == Len(tempChunks) > expectedChunks

\* variant: the count is compared off by one
chunkCountMismatch_offByOne(tempChunks, expectedChunks) == Len(tempChunks) + 1 # expectedChunks

\* if (tempChunks.length !== expectedChunks) throw
chunkCountMismatch(tempChunks, expectedChunks) == Len(tempChunks) # expectedChunks

\* variant: the catch block rethrows without running cleanupFailedUpload
mergeFileChunks_catch_noCleanup(l, e) ==
    [pc |-> "done", loc |-> Return(l, "error", e)]

\* catch (error): run cleanupFailedUpload(uploadId), then rethrow the merge error
mergeFileChunks_catch(l, e) ==
    [pc |-> "cl_getTempChunks", loc |-> [l EXCEPT !.err = e, !.list = <<>>, !.i = 0]]

Incomplete == {"NoTempChunks", "CountMismatch"}

\* this.db.getTempChunks(uploadId) and the two checks on its result
mergeFileChunks_getTempChunks(p, uploadId, expectedChunks) ==
    /\ Free(p)
    /\ LET tempChunks == getTempChunks(uploadId)
           l == [NoLoc EXCEPT !.op = "mergeFileChunks", !.uploadId = uploadId,
                     !.expected = expectedChunks,
                     !.staged = Len(tempChunks)]
           next == IF noTempChunks(tempChunks) THEN mergeFileChunks_catch(l, "NoTempChunks")
                   ELSE IF chunkCountMismatch(tempChunks, expectedChunks)
                        THEN mergeFileChunks_catch(l, "CountMismatch")
                        ELSE [pc |-> "mg_createFile", loc |-> [l EXCEPT !.list = tempChunks]]
           failed == mergeFileChunks_catch(l, "Db")
       IN \/ /\ pc' = [pc EXCEPT ![p] = next.pc]
             /\ loc' = [loc EXCEPT ![p] = next.loc]
          \/ /\ pc' = [pc EXCEPT ![p] = failed.pc]
             /\ loc' = [loc EXCEPT ![p] = failed.loc]
    /\ UNCHANGED <<files, file_chunks, temp_chunks, nextFileId, remote,
                   uploaded, committed>>

\* this.db.createFile(fileName, folderId, fileSize, mimeType); fileSize is the size the
\* caller declared in the merge request, an argument that is read here for the first time
mergeFileChunks_createFile(p, fileSize) ==
    /\ pc[p] = "mg_createFile"
    /\ LET l == loc[p]
           failed == mergeFileChunks_catch(l, "Db")
       IN \/ /\ nextFileId <= FileCap
             /\ files' = createFile(fileSize)
             /\ nextFileId' = nextFileId + 1
             /\ pc' = [pc EXCEPT ![p] = "mg_createFileChunk"]
             /\ loc' = [loc EXCEPT ![p] = [l EXCEPT !.fileId = nextFileId, !.i = 0,
                                                    !.fileSize = fileSize]]
          \/ /\ pc' = [pc EXCEPT ![p] = failed.pc]
             /\ loc' = [loc EXCEPT ![p] = failed.loc]
             /\ UNCHANGED <<files, nextFileId>>
    /\ UNCHANGED <<file_chunks, temp_chunks, remote, uploaded, committed>>

\* variant: the FileChunk row is numbered by its position in the staged list
mergeFileChunks_createFileChunk_renumbered(p) ==
    /\ pc[p] = "mg_createFileChunk"
    /\ LET l == loc[p]
           tempChunk == l.list[l.i + 1]
       IN /\ ~fileChunkExists(l.fileId, l.i)
          /\ file_chunks' = createFileChunk(l.fileId, l.i,
                                            tempChunk.telegram_file_id, tempChunk.size)
          /\ pc' = [pc EXCEPT ![p] = IF l.i + 1 < Len(l.list)
                                     THEN "mg_createFileChunk" ELSE "mg_deleteTempChunks"]
          /\ loc' = [loc EXCEPT ![p] = [l EXCEPT !.i = l.i + 1]]
    /\ UNCHANGED <<files, temp_chunks, nextFileId, remote,
                   uploaded, committed>>

\* for (const tempChunk of tempChunks) this.db.createFileChunk(...)
mergeFileChunks_createFileChunk(p) ==
    /\ pc[p] = "mg_createFileChunk"
    /\ LET l == loc[p]
           tempChunk == l.list[l.i + 1]
           failed == mergeFileChunks_catch(l, "Db")
       IN \/ /\ ~fileChunkExists(l.fileId, tempChunk.chunk_index)
             /\ file_chunks' = createFileChunk(l.fileId, tempChunk.chunk_index,
                                               tempChunk.telegram_file_id, tempChunk.size)
             /\ pc' = [pc EXCEPT ![p] = IF l.i + 1 < Len(l.list)
                                        THEN "mg_createFileChunk" ELSE "mg_deleteTempChunks"]
             /\ loc' = [loc EXCEPT ![p] = [l EXCEPT !.i = l.i + 1]]
          \/ /\ pc' = [pc EXCEPT ![p] = failed.pc]
             /\ loc' = [loc EXCEPT ![p] = failed.loc]
             /\ UNCHANGED file_chunks
    /\ UNCHANGED <<files, temp_chunks, nextFileId, remote,
                   uploaded, committed>>

\* variant: the merge clears the staging table instead of the rows of its upload_id
mergeFileChunks_deleteTempChunks_all(p) ==
    /\ pc[p] = "mg_deleteTempChunks"
    /\ temp_chunks' = <<>>
    /\ pc' = [pc EXCEPT ![p] = "done"]
    /\ loc' = [loc EXCEPT ![p] = Return(loc[p], "ok", "")]
    /\ committed' = committed \cup {loc[p].fileId}
    /\ UNCHANGED <<files, file_chunks, nextFileId, remote, uploaded>>

\* this.db.deleteTempChunks(uploadId) and the return of the composed record
mergeFileChunks_deleteTempChunks(p) ==
    /\ pc[p] = "mg_deleteTempChunks"
    /\ LET l == loc[p]
           failed == mergeFileChunks_catch(l, "Db")
       IN \/ /\ temp_chunks' = deleteTempChunks(l.uploadId)
             /\ pc' = [pc EXCEPT ![p] = "done"]
             /\ loc' = [loc EXCEPT ![p] = Return(l, "ok", "")]
             /\ committed' = committed \cup {l.fileId}
          \/ /\ pc' = [pc EXCEPT ![p] = failed.pc]
             /\ loc' = [loc EXCEPT ![p] = failed.loc]
             /\ UNCHANGED <<temp_chunks, committed>>
    /\ UNCHANGED <<files, file_chunks, nextFileId, remote, uploaded>>

(* ---------------------------------------------------------------------- *)
(* FileService.cleanupFailedUpload (called by a client, or by the catch    *)
(* block of mergeFileChunks)                                               *)
(* ---------------------------------------------------------------------- *)
\* variant: a failure of the cleanup is thrown to the caller
cleanup_return_throws(p, l, outcome, cleared) ==
    LET c == [l EXCEPT !.cleanup = outcome, !.cleared = cleared]
    IN /\ pc' = [pc EXCEPT ![p] = "done"]
       /\ loc' = [loc EXCEPT ![p] =
              IF outcome = "failed"
              THEN Return(c, "error", "CleanupFailed")
              ELSE IF l.op = "mergeFileChunks"
                   THEN Return(c, "error", l.err)
                   ELSE Return(c, "ok", "")]

\* cleanupFailedUpload returns: to the client, or into the catch block of the merge,
\* which then throws the merge error
cleanup_return(p, l, outcome, cleared) ==
    LET c == [l EXCEPT !.cleanup = outcome, !.cleared = cleared]
    IN /\ pc' = [pc EXCEPT ![p] = "done"]
       /\ loc' = [loc EXCEPT ![p] =
              IF l.op = "mergeFileChunks"
              THEN Return(c, "error", l.err)
              ELSE Return(c, IF outcome = "failed" THEN "fail" ELSE "ok", "")]

\* entry of a client's cleanup request
cleanupFailedUpload_begin(p, uploadId) ==
    /\ Free(p)
    /\ pc' = [pc EXCEPT ![p] = "cl_getTempChunks"]
    /\ loc' = [loc EXCEPT ![p] = [NoLoc EXCEPT !.op = "cleanupFailedUpload",
                                               !.uploadId = uploadId]]
    /\ UNCHANGED <<files, file_chunks, temp_chunks, nextFileId, remote,
                   uploaded, committed>>

\* this.db.getTempChunks(uploadId), the early return, and the loop of
\* deleteTelegramFileById calls, whose failures are caught one by one
cleanupFailedUpload_getTempChunks(p) ==
    /\ pc[p] = "cl_getTempChunks"
    /\ LET l == loc[p]
           tempChunks == getTempChunks(l.uploadId)
       IN \/ /\ tempChunks = <<>>
             /\ remote' = remote
             /\ cleanup_return(p, l, "empty", -1)
          \/ /\ tempChunks # <<>>
             /\ remote' = deleteChunks(remote, tempChunks)
             /\ pc' = [pc EXCEPT ![p] = "cl_deleteTempChunks"]
             /\ loc' = [loc EXCEPT ![p] = [l EXCEPT !.list = tempChunks,
                                                    !.deleted = deleteAttempts(tempChunks)]]
          \/ /\ remote' = remote
             /\ cleanup_return(p, l, "failed", -1)
    /\ UNCHANGED <<files, file_chunks, temp_chunks, nextFileId, uploaded, committed>>

\* variant: the cleanup also removes the FileChunk rows that refer to the staged objects
cleanupFailedUpload_deleteTempChunks_promoted(p) ==
    /\ pc[p] = "cl_deleteTempChunks"
    /\ LET l == loc[p]
       IN /\ temp_chunks' = deleteTempChunks(l.uploadId)
          /\ file_chunks' = SelectSeq(file_chunks,
                                LAMBDA r : r.telegram_file_id \notin Handles(l.list))
          /\ cleanup_return(p, l, "ok", Len(l.list))
    /\ UNCHANGED <<files, nextFileId, remote, uploaded, committed>>

\* this.db.deleteTempChunks(uploadId) and the result { success, clearedChunks }
cleanupFailedUpload_deleteTempChunks(p) ==
    /\ pc[p] = "cl_deleteTempChunks"
    /\ LET l == loc[p]
       IN \/ /\ temp_chunks' = deleteTempChunks(l.uploadId)
             /\ cleanup_return(p, l, "ok", Len(l.list))
          \/ /\ temp_chunks' = temp_chunks
             /\ cleanup_return(p, l, "failed", -1)
    /\ UNCHANGED <<files, file_chunks, nextFileId, remote, uploaded, committed>>

(* ---------------------------------------------------------------------- *)
(* Specification: requests served one after the other                      *)
(* ---------------------------------------------------------------------- *)
FileIds == 1..MaxFiles

\* the requests of single-shot mode: upload, download, delete
SingleShotStep(p) ==
    \/ \E fileData \in SeqsOf(Byte, 0, MaxLen) : uploadFile_begin(p, fileData)
    \/ uploadFile_uploadChunk(p)
    \/ uploadFile_createFile(p)
    \/ uploadFile_createFileChunk(p)
    \/ \E fileId \in FileIds : downloadFile_getFileById(p, fileId)
    \/ downloadFile_getFileChunks(p)
    \/ downloadFile_downloadChunk(p)
    \/ \E fileId \in FileIds : deleteFile_getFileChunks(p, fileId)
    \/ deleteFile_deleteFile(p)

\* the requests of resumable mode: chunk upload, merge, cleanup
ResumableStep(p) ==
    \/ \E uploadId \in UploadIds, chunkIndex \in 0..MaxIndex,
          chunkData \in ChunkInputs :
            uploadFileChunk_uploadChunk(p, uploadId, chunkIndex, chunkData)
    \/ uploadFileChunk_createTempChunk(p)
    \/ \E uploadId \in UploadIds, expectedChunks \in 0..(MaxIndex + 1) :
            mergeFileChunks_getTempChunks(p, uploadId, expectedChunks)
    \/ \E fileSize \in 0..MaxDeclSize : mergeFileChunks_createFile(p, fileSize)
    \/ mergeFileChunks_createFileChunk(p)
    \/ mergeFileChunks_deleteTempChunks(p)
    \/ \E uploadId \in UploadIds : cleanupFailedUpload_begin(p, uploadId)
    \/ cleanupFailedUpload_getTempChunks(p)
    \/ cleanupFailedUpload_deleteTempChunks(p)

Next == \E p \in Procs : (SingleShotStep(p) \/ ResumableStep(p) \/ respond(p)) /\ UNCHANGED <<client, plan>>

Spec == Init /\ [][Next]_vars

NextSingleShot == \E p \in Procs : (SingleShotStep(p) \/ respond(p)) /\ UNCHANGED <<client, plan>>

SpecSingleShot == Init /\ [][NextSingleShot]_vars

NextResumable == \E p \in Procs : (ResumableStep(p) \/ respond(p)) /\ UNCHANGED <<client, plan>>

SpecResumable == Init /\ [][NextResumable]_vars

\* the requests of resumable mode from clients that declare, in the merge request, the
\* size their staged chunks add up to
SessionStep(p) ==
    \/ \E uploadId \in UploadIds, chunkIndex \in 0..MaxIndex,
          chunkData \in ChunkInputs :
            uploadFileChunk_uploadChunk(p, uploadId, chunkIndex, chunkData)
    \/ uploadFileChunk_createTempChunk(p)
    \/ \E uploadId \in UploadIds, expectedChunks \in 0..(MaxIndex + 1) :
            mergeFileChunks_getTempChunks(p, uploadId, expectedChunks)
    \/ mergeFileChunks_createFile(p, SumSizes(loc[p].list))
    \/ mergeFileChunks_createFileChunk(p)
    \/ mergeFileChunks_deleteTempChunks(p)
    \/ \E uploadId \in UploadIds : cleanupFailedUpload_begin(p, uploadId)
    \/ cleanupFailedUpload_getTempChunks(p)
    \/ cleanupFailedUpload_deleteTempChunks(p)

NextSession == \E p \in Procs : (SessionStep(p) \/ respond(p)) /\ UNCHANGED <<client, plan>>

SpecSession == Init /\ [][NextSession]_vars

(* ---------------------------------------------------------------------- *)
(* A client that merges too early and then retries (resumable mode)        *)
(*   stage   : uploads chunks of 0..n-1, had = indices staged successfully *)
(*   merge1  : calls mergeFileChunks while had is not all of 0..n-1        *)
(*   restage : mode "missing" uploads only the indices not in had,         *)
(*             mode "all" uploads every index of 0..n-1 again              *)
(*   merge2  : calls mergeFileChunks again; merged when it has returned    *)
(* ---------------------------------------------------------------------- *)
InitRetry ==
    /\ InitStore
    /\ plan = NoPlan
    /\ client \in {[phase |-> "stage", n |-> n, mode |-> m, had |-> {}, since |-> {},
                    cleaned |-> FALSE] : n \in 1..(MaxIndex + 1), m \in {"missing", "all"}}

AllIndices == 0..(client.n - 1)

\* the indices the client still wants to upload
Wanted ==
    IF client.phase = "stage" THEN AllIndices \ client.had
    ELSE IF client.phase = "restage"
         THEN IF client.mode = "missing" THEN AllIndices \ (client.had \cup client.since)
              ELSE AllIndices \ client.since
         ELSE {}

\* what the client knows once the request of worker p has returned
Observed(p) ==
    IF pc'[p] # "done" THEN client
    ELSE LET r == loc'[p]
         IN IF r.op = "uploadFileChunk" /\ r.result = "ok"
            THEN IF client.phase = "stage"
                 THEN [client EXCEPT !.had = @ \cup {r.chunkIndex}]
                 ELSE [client EXCEPT !.since = @ \cup {r.chunkIndex}]
            ELSE IF r.op = "mergeFileChunks" /\ client.phase = "merge1"
                 THEN IF r.err \in Incomplete
                      THEN [client EXCEPT !.phase = "restage",
                                          !.cleaned = r.cleanup \in {"ok", "empty"}]
                      ELSE [client EXCEPT !.phase = "end"]
                 ELSE IF r.op = "mergeFileChunks" /\ client.phase = "merge2"
                      THEN [client EXCEPT !.phase = "merged"]
                      ELSE client

RetryStep(p) ==
    \/ /\ \E chunkIndex \in Wanted, chunkData \in ChunkInputs :
            uploadFileChunk_uploadChunk(p, "u1", chunkIndex, chunkData)
       /\ client' = Observed(p)
    \/ /\ uploadFileChunk_createTempChunk(p)
       /\ client' = Observed(p)
    \/ /\ client.phase = "stage"
       /\ client.had # AllIndices
       /\ mergeFileChunks_getTempChunks(p, "u1", client.n)
       /\ client' = [client EXCEPT !.phase = "merge1"]
    \/ /\ client.phase = "restage"
       /\ Wanted = {}
       /\ mergeFileChunks_getTempChunks(p, "u1", client.n)
       /\ client' = [client EXCEPT !.phase = "merge2"]
    \/ /\ \E fileSize \in 0..MaxDeclSize : mergeFileChunks_createFile(p, fileSize)
       /\ client' = Observed(p)
    \/ /\ mergeFileChunks_createFileChunk(p)
       /\ client' = Observed(p)
    \/ /\ mergeFileChunks_deleteTempChunks(p)
       /\ client' = Observed(p)
    \/ /\ cleanupFailedUpload_getTempChunks(p)
       /\ client' = Observed(p)
    \/ /\ cleanupFailedUpload_deleteTempChunks(p)
       /\ client' = Observed(p)
    \/ /\ client.phase \in {"stage", "restage"}
       /\ respond(p)
       /\ UNCHANGED client

NextRetry == \E p \in Procs : RetryStep(p) /\ UNCHANGED plan

SpecRetry == InitRetry /\ [][NextRetry]_vars

(* ---------------------------------------------------------------------- *)
(* A client that stages some chunks and then calls cleanupFailedUpload     *)
(* twice in a row                                                          *)
(*   stage    : uploads chunks                                             *)
(*   cleanup1 : first cleanup running; between when it has succeeded       *)
(*   cleanup2 : second cleanup running; cleaned2 when it has returned      *)
(* client.n is the number of chunks the first cleanup reported             *)
(* ---------------------------------------------------------------------- *)
InitTwice ==
    /\ InitStore
    /\ plan = NoPlan
    /\ client = [NoClient EXCEPT !.phase = "stage", !.mode = "cleanupTwice"]

ObservedCleanup(p) ==
    IF pc'[p] # "done" THEN client
    ELSE LET r == loc'[p]
         IN IF client.phase = "cleanup1"
            THEN IF r.result = "ok"
                 THEN [client EXCEPT !.phase = "between", !.n = r.cleared]
                 ELSE [client EXCEPT !.phase = "end"]
            ELSE [client EXCEPT !.phase = "cleaned2"]

TwiceStep(p) ==
    \/ /\ client.phase = "stage"
       /\ \E chunkIndex \in 0..MaxIndex, chunkData \in ChunkInputs :
            uploadFileChunk_uploadChunk(p, "u1", chunkIndex, chunkData)
       /\ UNCHANGED client
    \/ /\ uploadFileChunk_createTempChunk(p)
       /\ UNCHANGED client
    \/ /\ client.phase = "stage"
       /\ cleanupFailedUpload_begin(p, "u1")
       /\ client' = [client EXCEPT !.phase = "cleanup1"]
    \/ /\ client.phase = "between"
       /\ cleanupFailedUpload_begin(p, "u1")
       /\ client' = [client EXCEPT !.phase = "cleanup2"]
    \/ /\ cleanupFailedUpload_getTempChunks(p)
       /\ client' = ObservedCleanup(p)
    \/ /\ cleanupFailedUpload_deleteTempChunks(p)
       /\ client' = ObservedCleanup(p)
    \/ /\ client.phase \in {"stage", "between"}
       /\ respond(p)
       /\ UNCHANGED client

NextTwice == \E p \in Procs : TwiceStep(p) /\ UNCHANGED plan

SpecTwice == InitTwice /\ [][NextTwice]_vars

(* ---------------------------------------------------------------------- *)
(* A client that splits a file into chunks of chunkSize bytes, uploads     *)
(* them with uploadFileChunk in any order, merges and downloads            *)
(*   stage : uploads the chunks not staged yet; order = indices as staged  *)
(*   merge : mergeFileChunks running; merged when it has succeeded         *)
(*   download : downloadFile running; downloaded when it has returned      *)
(* ---------------------------------------------------------------------- *)
\* longest file the client splits
MaxSplit == Min(MaxLen, (MaxIndex + 1) * chunkSize)

InitPermute ==
    /\ InitStore
    /\ plan = NoPlan
    /\ client \in {[phase |-> "stage", mode |-> "permute", data |-> d,
                    n |-> totalChunksOf(d), order |-> <<>>, fileId |-> 0] :
                        d \in SeqsOf(Byte, 1, MaxSplit)}

StagedIndices == {client.order[j] : j \in 1..Len(client.order)}

ObservedPermute(p) ==
    IF pc'[p] # "done" THEN client
    ELSE LET r == loc'[p]
         IN IF r.op = "uploadFileChunk"
            THEN IF r.result = "ok"
                 THEN [client EXCEPT !.order = Append(@, r.chunkIndex)]
                 ELSE client
            ELSE IF r.op = "mergeFileChunks"
                 THEN IF r.result = "ok"
                      THEN [client EXCEPT !.phase = "merged", !.fileId = r.fileId]
                      ELSE [client EXCEPT !.phase = "end"]
                 ELSE [client EXCEPT !.phase = "downloaded"]

PermuteStep(p) ==
    \/ /\ client.phase = "stage"
       /\ \E chunkIndex \in (0..(client.n - 1)) \ StagedIndices :
            uploadFileChunk_uploadChunk(p, "u1", chunkIndex, chunkOf(client.data, chunkIndex))
       /\ client' = ObservedPermute(p)
    \/ /\ uploadFileChunk_createTempChunk(p)
       /\ client' = ObservedPermute(p)
    \/ /\ client.phase = "stage"
       /\ StagedIndices = 0..(client.n - 1)
       /\ mergeFileChunks_getTempChunks(p, "u1", client.n)
       /\ client' = [client EXCEPT !.phase = "merge"]
    \/ /\ mergeFileChunks_createFile(p, Len(client.data))
       /\ client' = ObservedPermute(p)
    \/ /\ mergeFileChunks_createFileChunk(p)
       /\ client' = ObservedPermute(p)
    \/ /\ mergeFileChunks_deleteTempChunks(p)
       /\ client' = ObservedPermute(p)
    \/ /\ cleanupFailedUpload_getTempChunks(p)
       /\ client' = ObservedPermute(p)
    \/ /\ cleanupFailedUpload_deleteTempChunks(p)
       /\ client' = ObservedPermute(p)
    \/ /\ client.phase = "merged"
       /\ downloadFile_getFileById(p, client.fileId)
       /\ client' = IF pc'[p] = "done" THEN [client EXCEPT !.phase = "downloaded"]
                    ELSE [client EXCEPT !.phase = "download"]
    \/ /\ downloadFile_getFileChunks(p)
       /\ client' = ObservedPermute(p)
    \/ /\ downloadFile_downloadChunk(p)
       /\ client' = ObservedPermute(p)
    \/ /\ client.phase \in {"stage", "merged"}
       /\ respond(p)
       /\ UNCHANGED client

NextPermute == \E p \in Procs : PermuteStep(p) /\ UNCHANGED plan

SpecPermute == InitPermute /\ [][NextPermute]_vars

(* ---------------------------------------------------------------------- *)
(* Two requests in flight: worker 1 uploads or merges while worker 2       *)
(* downloads; the steps of the two interleave at every awaited call        *)
(* ---------------------------------------------------------------------- *)
WriterStep(p) ==
    \/ \E fileData \in SeqsOf(Byte, 0, MaxLen) : uploadFile_begin(p, fileData)
    \/ uploadFile_uploadChunk(p)
    \/ uploadFile_createFile(p)
    \/ uploadFile_createFileChunk(p)
    \/ \E uploadId \in UploadIds, chunkIndex \in 0..MaxIndex,
          chunkData \in ChunkInputs :
            uploadFileChunk_uploadChunk(p, uploadId, chunkIndex, chunkData)
    \/ uploadFileChunk_createTempChunk(p)
    \/ \E uploadId \in UploadIds, expectedChunks \in 0..(MaxIndex + 1) :
            mergeFileChunks_getTempChunks(p, uploadId, expectedChunks)
    \/ \E fileSize \in 0..MaxDeclSize : mergeFileChunks_createFile(p, fileSize)
    \/ mergeFileChunks_createFileChunk(p)
    \/ mergeFileChunks_deleteTempChunks(p)
    \/ cleanupFailedUpload_getTempChunks(p)
    \/ cleanupFailedUpload_deleteTempChunks(p)

ReaderStep(p) ==
    \/ \E fileId \in FileIds : downloadFile_getFileById(p, fileId)
    \/ downloadFile_getFileChunks(p)
    \/ downloadFile_downloadChunk(p)

NextConcurrent ==
    /\ \/ \E p \in Procs : WriterStep(p) \/ respond(p)
       \/ \E p \in Readers : ReaderStep(p) \/ respond(p)
    /\ UNCHANGED <<client, plan>>

SpecConcurrent == Init /\ [][NextConcurrent]_vars

(* ---------------------------------------------------------------------- *)
(* The chunking loops of TelegramService run on their own, for any total   *)
(* size and any chunk size: the loop of uploadFile and the deprecated      *)
(* splitFileIntoChunks                                                     *)
(* ---------------------------------------------------------------------- *)
\* variant: the chunk count is rounded down
totalChunksFor_floor(length, maxChunkSize) == length \div maxChunkSize

\* Math.ceil(fileData.length / this.chunkSize)
totalChunksFor(length, maxChunkSize) == Ceil(length, maxChunkSize)

\* variant: the end of the chunk is not clamped to the end of the file
endOffsetFor_unclamped(startOffset, maxChunkSize, totalSize) == startOffset + maxChunkSize

\* const endOffset = Math.min(startOffset + this.chunkSize, fileData.length)
endOffsetFor(startOffset, maxChunkSize, totalSize) ==
    Min(startOffset + maxChunkSize, totalSize)

InitPlan ==
    /\ InitStore
    /\ client = NoClient
    /\ plan \in {[mode |-> m, totalSize |-> t, maxChunkSize |-> c,
                  i |-> 0, offset |-> 0, chunks |-> <<>>, done |-> FALSE] :
                    m \in {"uploadFile", "splitFileIntoChunks"},
                    t \in 0..MaxTotal, c \in 1..MaxChunk}

\* for (let i = 0; i < totalChunks; i++): startOffset, endOffset, chunk, messageIds.push
uploadFile_planChunk ==
    /\ plan.mode = "uploadFile"
    /\ ~plan.done
    /\ LET startOffset == plan.i * plan.maxChunkSize
           endOffset == endOffsetFor(startOffset, plan.maxChunkSize, plan.totalSize)
       IN IF plan.i < totalChunksFor(plan.totalSize, plan.maxChunkSize)
          THEN plan' = [plan EXCEPT !.chunks = Append(@, [index |-> plan.i,
                                                         offset |-> startOffset,
                                                         size |-> endOffset - startOffset]),
                                    !.i = @ + 1]
          ELSE plan' = [plan EXCEPT !.done = TRUE]
    /\ UNCHANGED <<files, file_chunks, temp_chunks, nextFileId, remote,
                   pc, loc, uploaded, committed, client>>

\* while (offset < fileData.length): chunkSize, chunk, chunks.push, offset += chunkSize
splitFileIntoChunks_step ==
    /\ plan.mode = "splitFileIntoChunks"
    /\ ~plan.done
    /\ LET chunkLength == Min(plan.maxChunkSize, plan.totalSize - plan.offset)
       IN IF plan.offset < plan.totalSize
          THEN plan' = [plan EXCEPT !.chunks = Append(@, [index |-> Len(plan.chunks),
                                                         offset |-> plan.offset,
                                                         size |-> chunkLength]),
                                    !.offset = @ + chunkLength]
          ELSE plan' = [plan EXCEPT !.done = TRUE]
    /\ UNCHANGED <<files, file_chunks, temp_chunks, nextFileId, remote,
                   pc, loc, uploaded, committed, client>>

NextPlan == uploadFile_planChunk \/ splitFileIntoChunks_step

SpecPlan == InitPlan /\ [][NextPlan]_vars

(* ---------------------------------------------------------------------- *)
(* Two upload sessions in flight: worker 1 serves the requests of one      *)
(* upload_id, worker 2 those of another; the steps of the two interleave   *)
(* at every awaited call.  A session sends its chunks in index order, each *)
(* one until it is staged, then ends with one merge or one cleanup         *)
(* ---------------------------------------------------------------------- *)
\* the upload_id whose requests worker p serves
SessionOf(p) == IF p \in Procs THEN "u1" ELSE "u2"

\* the bytes of every chunk a session sends (the two sessions send different bytes)
SessionData(uploadId) == IF uploadId = "u1" THEN <<0>> ELSE <<1, 0>>

InitIsolated ==
    /\ InitStore
    /\ client = [p \in AllProcs |-> "open"]
    /\ plan = NoPlan

IsolatedStep(p) ==
    \/ /\ client[p] = "open"
       /\ \E chunkIndex \in 0..MaxIndex :
            /\ chunkIndex = Len(getTempChunks(SessionOf(p)))
            /\ uploadFileChunk_uploadChunk(p, SessionOf(p), chunkIndex,
                                           SessionData(SessionOf(p)))
       /\ UNCHANGED client
    \/ uploadFileChunk_createTempChunk(p) /\ UNCHANGED client
    \/ /\ client[p] = "open"
       /\ \E expectedChunks \in 1..(MaxIndex + 1) :
            mergeFileChunks_getTempChunks(p, SessionOf(p), expectedChunks)
       /\ client' = [client EXCEPT ![p] = "over"]
    \/ mergeFileChunks_createFile(p, SumSizes(loc[p].list)) /\ UNCHANGED client
    \/ mergeFileChunks_createFileChunk(p) /\ UNCHANGED client
    \/ mergeFileChunks_deleteTempChunks(p) /\ UNCHANGED client
    \/ /\ client[p] = "open"
       /\ cleanupFailedUpload_begin(p, SessionOf(p))
       /\ client' = [client EXCEPT ![p] = "over"]
    \/ cleanupFailedUpload_getTempChunks(p) /\ UNCHANGED client
    \/ cleanupFailedUpload_deleteTempChunks(p) /\ UNCHANGED client
    \/ respond(p) /\ UNCHANGED client

NextIsolated == \E p \in AllProcs : IsolatedStep(p) /\ UNCHANGED plan

SpecIsolated == InitIsolated /\ [][NextIsolated]_vars

(* ---------------------------------------------------------------------- *)
(* Resumable mode with clients that may abandon a session: a request that  *)
(* has entered its handler runs on to its response, but nothing makes a    *)
(* client send another request.  The Worker exports a fetch handler only:  *)
(* no step of the program runs without a request                           *)
(* ---------------------------------------------------------------------- *)
\* the request served by worker p goes on: its next awaited call, or its response
InHandler(p) ==
    /\ pc[p] # "idle"
    /\ SessionStep(p) \/ respond(p)
    /\ UNCHANGED <<client, plan>>

SpecAbandon == Init /\ [][NextSession]_vars /\ WF_vars(\E p \in Procs : InHandler(p))

(* ---------------------------------------------------------------------- *)
(* The requests that commit a File, served one after the other: the        *)
(* single-shot upload and the requests of resumable mode.  The order of    *)
(* the steps does not depend on the byte values, so the files uploaded in  *)
(* one shot are, for every length, the file whose bytes are all 0          *)
(* ---------------------------------------------------------------------- *)
CommitStep(p) ==
    \/ \E fileData \in SeqsOf({0}, 0, MaxLen) : uploadFile_begin(p, fileData)
    \/ uploadFile_uploadChunk(p)
    \/ uploadFile_createFile(p)
    \/ uploadFile_createFileChunk(p)
    \/ SessionStep(p)

NextCommit == \E p \in Procs : (CommitStep(p) \/ respond(p)) /\ UNCHANGED <<client, plan>>

SpecCommit == Init /\ [][NextCommit]_vars

(* ---------------------------------------------------------------------- *)
(* The transfer loops of TelegramService at the grain of one remote        *)
(* request: "await this.uploadChunk(...)" and "await this.downloadChunk    *)
(* (...)" are a request that is issued and, in a later step, completes or  *)
(* fails.  plan.inflight holds the chunk indices whose request is issued   *)
(* and not yet completed                                                   *)
(* ---------------------------------------------------------------------- *)
\* the rows of a File with n chunks as the store returns them, in the order given
RowsInOrder(order) ==
    [j \in 1..Len(order) |-> [chunk_index |-> order[j], telegram_file_id |-> j, size |-> 1]]

\* the orders in which the store can return the rows of indices 0..n-1
Orders(n) == {f \in [1..n -> 0..(n - 1)] : \A j, k \in 1..n : f[j] = f[k] => j = k}

\* uploadFile: totalChunks is computed, messageIds = []; downloadFile: the chunks are sorted
InitInFlight ==
    /\ InitStore
    /\ client = NoClient
    /\ \/ \E t \in 0..MaxTotal, c \in 1..MaxChunk :
            plan = [mode |-> "uploadLoop", totalSize |-> t, maxChunkSize |-> c,
                    n |-> totalChunksFor(t, c), list |-> <<>>, i |-> 0, inflight |-> {}, issued |-> <<>>,
                    completed |-> {}, done |-> FALSE, failed |-> FALSE]
       \/ \E n \in 0..(MaxIndex + 1) : \E order \in Orders(n) :
            plan = [mode |-> "downloadLoop", n |-> n,
                    list |-> sortChunks(RowsInOrder(order)),
                    i |-> 0, inflight |-> {}, issued |-> <<>>,
                    completed |-> {}, done |-> FALSE, failed |-> FALSE]

\* variant: the request for the next chunk is issued without awaiting the one before
uploadFile_issueChunk_eager ==
    /\ plan.mode = "uploadLoop"
    /\ ~plan.done
    /\ Len(plan.issued) < plan.n
    /\ plan' = [plan EXCEPT !.inflight = @ \cup {Len(plan.issued)},
                            !.issued = Append(@, Len(plan.issued))]
    /\ UNCHANGED <<files, file_chunks, temp_chunks, nextFileId, remote,
                   pc, loc, uploaded, committed, client>>

\* for (let i = 0; i < totalChunks; i++) { ... this.uploadChunk(chunk, chunkFileName)
uploadFile_issueChunk ==
    /\ plan.mode = "uploadLoop"
    /\ ~plan.done
    /\ plan.inflight = {}
    /\ plan.i < plan.n
    /\ plan' = [plan EXCEPT !.inflight = @ \cup {plan.i}, !.issued = Append(@, plan.i)]
    /\ UNCHANGED <<files, file_chunks, temp_chunks, nextFileId, remote,
                   pc, loc, uploaded, committed, client>>

\* the awaited uploadChunk resolves (messageIds.push, i++) or rejects (the loop is left)
uploadFile_awaitChunk ==
    /\ plan.mode = "uploadLoop"
    /\ ~plan.done
    /\ \E k \in plan.inflight :
        \/ plan' = [plan EXCEPT !.inflight = @ \ {k}, !.completed = @ \cup {k},
                                !.i = @ + 1]
        \/ plan' = [plan EXCEPT !.inflight = @ \ {k}, !.done = TRUE, !.failed = TRUE]
    /\ UNCHANGED <<files, file_chunks, temp_chunks, nextFileId, remote,
                   pc, loc, uploaded, committed, client>>

\* i < totalChunks is false: return messageIds
uploadFile_loopEnd ==
    /\ plan.mode = "uploadLoop"
    /\ ~plan.done
    /\ plan.inflight = {}
    /\ plan.i >= plan.n
    /\ plan' = [plan EXCEPT !.done = TRUE]
    /\ UNCHANGED <<files, file_chunks, temp_chunks, nextFileId, remote,
                   pc, loc, uploaded, committed, client>>

\* for (let i = 0; i < sortedChunks.length; i++) { ... this.downloadChunk(chunk.telegram_file_id)
downloadFile_issueChunk ==
    /\ plan.mode = "downloadLoop"
    /\ ~plan.done
    /\ plan.inflight = {}
    /\ plan.i < Len(plan.list)
    /\ plan' = [plan EXCEPT !.inflight = @ \cup {plan.list[plan.i + 1].chunk_index},
                            !.issued = Append(@, plan.list[plan.i + 1].chunk_index)]
    /\ UNCHANGED <<files, file_chunks, temp_chunks, nextFileId, remote,
                   pc, loc, uploaded, committed, client>>

\* the awaited downloadChunk resolves (chunkDataArray.push, i++) or rejects
downloadFile_awaitChunk ==
    /\ plan.mode = "downloadLoop"
    /\ ~plan.done
    /\ \E k \in plan.inflight :
        \/ plan' = [plan EXCEPT !.inflight = @ \ {k}, !.completed = @ \cup {k},
                                !.i = @ + 1]
        \/ plan' = [plan EXCEPT !.inflight = @ \ {k}, !.done = TRUE, !.failed = TRUE]
    /\ UNCHANGED <<files, file_chunks, temp_chunks, nextFileId, remote,
                   pc, loc, uploaded, committed, client>>

\* i < sortedChunks.length is false: mergeChunks and return
downloadFile_loopEnd ==
    /\ plan.mode = "downloadLoop"
    /\ ~plan.done
    /\ plan.inflight = {}
    /\ plan.i >= Len(plan.list)
    /\ plan' = [plan EXCEPT !.done = TRUE]
    /\ UNCHANGED <<files, file_chunks, temp_chunks, nextFileId, remote,
                   pc, loc, uploaded, committed, client>>

NextInFlight ==
    \/ uploadFile_issueChunk
    \/ uploadFile_awaitChunk
    \/ uploadFile_loopEnd
    \/ downloadFile_issueChunk
    \/ downloadFile_awaitChunk
    \/ downloadFile_loopEnd

SpecInFlight == InitInFlight /\ [][NextInFlight]_vars

(* ---------------------------------------------------------------------- *)
(* Resumable mode with a client that also sends a chunk larger than the    *)
(* chunk size the service itself slices with                               *)
(* ---------------------------------------------------------------------- *)
\* a pre-sliced chunk of one byte more than this.chunkSize
OversizedChunk == [j \in 1..(chunkSize + 1) |-> 0]

OversizeStep(p) ==
    \/ SessionStep(p)
    \/ \E uploadId \in UploadIds, chunkIndex \in 0..MaxIndex :
            uploadFileChunk_uploadChunk(p, uploadId, chunkIndex, OversizedChunk)

NextOversize == \E p \in Procs : (OversizeStep(p) \/ respond(p)) /\ UNCHANGED <<client, plan>>

SpecOversize == Init /\ [][NextOversize]_vars

(* ---------------------------------------------------------------------- *)
(* Two workers serve requests of the same upload_id: the steps of the two  *)
(* requests interleave at every awaited call.  Each worker stages chunks   *)
(* in index order and ends with one merge or one cleanup                   *)
(* ---------------------------------------------------------------------- *)
\* the upload_id both workers are sent requests for
RaceId == "u1"

InitRace ==
    /\ InitStore
    /\ client = [p \in AllProcs |-> "open"]
    /\ plan = [mode |-> "race"]

RaceStep(p) ==
    \/ /\ client[p] = "open"
       /\ \E chunkIndex \in 0..MaxIndex :
            /\ chunkIndex = Len(getTempChunks(RaceId))
            /\ uploadFileChunk_uploadChunk(p, RaceId, chunkIndex, <<0>>)
       /\ UNCHANGED client
    \/ uploadFileChunk_createTempChunk(p) /\ UNCHANGED client
    \/ /\ client[p] = "open"
       /\ \E expectedChunks \in 1..(MaxIndex + 1) :
            mergeFileChunks_getTempChunks(p, RaceId, expectedChunks)
       /\ client' = [client EXCEPT ![p] = "over"]
    \/ mergeFileChunks_createFile(p, SumSizes(loc[p].list)) /\ UNCHANGED client
    \/ mergeFileChunks_createFileChunk(p) /\ UNCHANGED client
    \/ mergeFileChunks_deleteTempChunks(p) /\ UNCHANGED client
    \/ /\ client[p] = "open"
       /\ cleanupFailedUpload_begin(p, RaceId)
       /\ client' = [client EXCEPT ![p] = "over"]
    \/ cleanupFailedUpload_getTempChunks(p) /\ UNCHANGED client
    \/ cleanupFailedUpload_deleteTempChunks(p) /\ UNCHANGED client
    \/ respond(p) /\ UNCHANGED client

NextRace == \E p \in AllProcs : RaceStep(p) /\ UNCHANGED plan

SpecRace == InitRace /\ [][NextRace]_vars

(* ---------------------------------------------------------------------- *)
(* FileService.deleteFolder run on its own, on every folder tree of        *)
(* MaxFolders folders and MaxTreeFiles files.  The recursion is a stack of *)
(* frames, one per deleteFolder call in progress; folders and files are    *)
(* the tables of schema.sql (parent_id, folder_id, ON DELETE CASCADE)      *)
(* ---------------------------------------------------------------------- *)
FolderIds == 1..MaxFolders
TreeFileIds == 1..MaxTreeFiles

\* the rows a query returns, in id order
RECURSIVE Ascending(_)
Ascending(S) ==
    IF S = {} THEN <<>>
    ELSE LET m == CHOOSE x \in S : \A y \in S : x <= y
         IN <<m>> \o Ascending(S \ {m})

\* folder x is folder g or lies below it (parent_id chain; 0 is no parent)
RECURSIVE InSubtree(_, _, _)
InSubtree(parent, x, g) ==
    IF x = g THEN TRUE
    ELSE IF x = 0 THEN FALSE
    ELSE InSubtree(parent, parent[x], g)

\* db.getFilesByFolder(folderId)
getFilesByFolder(folderId) ==
    Ascending({f \in plan.fileRows : plan.folder_id[f] = folderId})

\* db.getFoldersByParent(folderId)
getFoldersByParent(folderId) ==
    Ascending({g \in plan.folderRows : plan.parent_id[g] = folderId})

\* the frame of a deleteFolder(folderId) call that has just been entered
Frame(folderId) ==
    [folderId |-> folderId, files |-> <<>>, subFolders |-> <<>>, at |-> "getFilesByFolder"]

\* acyclic trees: the parent of a folder is an older folder or none
InitDeleteFolder ==
    /\ InitStore
    /\ client = NoClient
    /\ \E parent_id \in [FolderIds -> 0..MaxFolders],
          folder_id \in [TreeFileIds -> FolderIds],
          root \in FolderIds :
            /\ \A g \in FolderIds : parent_id[g] < g
            /\ plan = [mode |-> "deleteFolder", parent_id |-> parent_id,
                       folder_id |-> folder_id, root |-> root,
                       folderRows |-> FolderIds, fileRows |-> TreeFileIds,
                       stack |-> <<Frame(root)>>, calls |-> <<>>,
                       result |-> "running"]

\* the frame of the innermost call, and the stack with that frame replaced
Top == plan.stack[Len(plan.stack)]
WithTop(frame) == [plan.stack EXCEPT ![Len(plan.stack)] = frame]
Running(at) == plan.mode = "deleteFolder" /\ plan.stack # <<>> /\ Top.at = at

\* catch (error) { throw new Error('Failed to delete folder') } in every frame
deleteFolder_catch == [plan EXCEPT !.stack = <<>>, !.result = "error"]

\* const files = await this.db.getFilesByFolder(folderId)
deleteFolder_getFilesByFolder ==
    /\ Running("getFilesByFolder")
    /\ \/ plan' = [plan EXCEPT !.stack = WithTop([Top EXCEPT
                        !.files = getFilesByFolder(Top.folderId),
                        !.at = "getFoldersByParent"])]
       \/ plan' = deleteFolder_catch

\* variant: the subfolders are left to the cascade of the folder's own delete
deleteFolder_getFoldersByParent_none ==
    /\ Running("getFoldersByParent")
    /\ plan' = [plan EXCEPT !.stack = WithTop([Top EXCEPT !.subFolders = <<>>,
                                                          !.at = "subFolders"])]

\* const subFolders = await this.db.getFoldersByParent(folderId)
deleteFolder_getFoldersByParent ==
    /\ Running("getFoldersByParent")
    /\ \/ plan' = [plan EXCEPT !.stack = WithTop([Top EXCEPT
                        !.subFolders = getFoldersByParent(Top.folderId),
                        !.at = "subFolders"])]
       \/ plan' = deleteFolder_catch

\* for (const subFolder of subFolders) await this.deleteFolder(subFolder.id)
deleteFolder_subFolder ==
    /\ Running("subFolders")
    /\ IF Top.subFolders # <<>>
       THEN plan' = [plan EXCEPT !.stack =
                        Append(WithTop([Top EXCEPT !.subFolders = Tail(@)]),
                               Frame(Head(Top.subFolders)))]
       ELSE plan' = [plan EXCEPT !.stack = WithTop([Top EXCEPT !.at = "files"])]

\* for (const file of files) await this.deleteFile(file.id): the file's row is deleted
\* (its chunks with it), or deleteFile throws
deleteFolder_deleteFile ==
    /\ Running("files")
    /\ IF Top.files # <<>>
       THEN LET fileId == Head(Top.files)
                called == [plan EXCEPT !.calls = Append(@, fileId)]
            IN \/ plan' = [called EXCEPT !.fileRows = @ \ {fileId},
                                         !.stack = WithTop([Top EXCEPT !.files = Tail(@)])]
               \/ plan' = [called EXCEPT !.stack = <<>>, !.result = "error"]
       ELSE plan' = [plan EXCEPT !.stack = WithTop([Top EXCEPT !.at = "deleteFolder"])]

\* await this.db.deleteFolder(folderId): the row goes, and by ON DELETE CASCADE every
\* folder and file row below it; the call returns to its caller
deleteFolder_deleteFolder ==
    /\ Running("deleteFolder")
    /\ LET gone == {g \in plan.folderRows : InSubtree(plan.parent_id, g, Top.folderId)}
           rest == SubSeq(plan.stack, 1, Len(plan.stack) - 1)
       IN \/ plan' = [plan EXCEPT
                        !.folderRows = @ \ gone,
                        !.fileRows = {f \in @ : plan.folder_id[f] \notin gone},
                        !.stack = rest,
                        !.result = IF rest = <<>> THEN "ok" ELSE @]
          \/ plan' = deleteFolder_catch

NextDeleteFolder ==
    /\ \/ deleteFolder_getFilesByFolder
       \/ deleteFolder_getFoldersByParent
       \/ deleteFolder_subFolder
       \/ deleteFolder_deleteFile
       \/ deleteFolder_deleteFolder
    /\ UNCHANGED <<files, file_chunks, temp_chunks, nextFileId, remote, pc, loc,
                   uploaded, committed, client>>

SpecDeleteFolder == InitDeleteFolder /\ [][NextDeleteFolder]_vars

\* a deleteFolder call that has been entered runs on: every awaited call returns or throws
FairDeleteFolder == SpecDeleteFolder /\ WF_vars(NextDeleteFolder)

(* ---------------------------------------------------------------------- *)
(* The Worker's fetch handler run on its own: the route table of index.js, *)
(* Router.handle and the first statements of every handler.  A pathname is *)
(* the sequence of its segments, one after each "/" ("/" is <<"">>), a     *)
(* route path a sequence of literal segments and ':name' placeholders      *)
(* ---------------------------------------------------------------------- *)
Lit(s) == [kind |-> "lit", name |-> s]
Param(s) == [kind |-> "param", name |-> s]

\* one registered route: method and path as given to router.get/post/patch/delete;
\* auth: the handler starts with extractToken / verifyToken and returns 401;
\* ops: the handler's body calls the metadata store or the remote backend;
\* own: the error responses the body returns itself
Route(method, path, auth, ops, own) ==
    [method |-> method, path |-> path, auth |-> auth, ops |-> ops, own |-> own]

\* variant: the download route answers without looking at the token
Routes_openDownload ==
    << Route("GET", <<Lit("")>>, FALSE, FALSE, {}),
       Route("POST", <<Lit("api"), Lit("login")>>, FALSE, FALSE, {}),
       Route("POST", <<Lit("api"), Lit("logout")>>, FALSE, FALSE, {}),
       Route("GET", <<Lit("api"), Lit("user")>>, TRUE, FALSE, {}),
       Route("GET", <<Lit("api"), Lit("entries")>>, TRUE, TRUE, {}),
       Route("POST", <<Lit("api"), Lit("folders")>>, TRUE, TRUE, {}),
       Route("PATCH", <<Lit("api"), Lit("folders"), Param("id")>>, TRUE, TRUE, {}),
       Route("DELETE", <<Lit("api"), Lit("folders"), Param("id")>>, TRUE, TRUE, {}),
       Route("POST", <<Lit("api"), Lit("files")>>, TRUE, TRUE, {400}),
       Route("GET", <<Lit("api"), Lit("files"), Param("id")>>, TRUE, TRUE, {404}),
       Route("GET", <<Lit("api"), Lit("files"), Param("id"), Lit("download")>>,
             FALSE, TRUE, {404}),
       Route("PATCH", <<Lit("api"), Lit("files"), Param("id")>>, TRUE, TRUE, {}),
       Route("DELETE", <<Lit("api"), Lit("files"), Param("id")>>, TRUE, TRUE, {}) >>

\* this.routes after the registrations of index.js, in registration order
Routes ==
    << Route("GET", <<Lit("")>>, FALSE, FALSE, {}),
       Route("POST", <<Lit("api"), Lit("login")>>, FALSE, FALSE, {}),
       Route("POST", <<Lit("api"), Lit("logout")>>, FALSE, FALSE, {}),
       Route("GET", <<Lit("api"), Lit("user")>>, TRUE, FALSE, {}),
       Route("GET", <<Lit("api"), Lit("entries")>>, TRUE, TRUE, {}),
       Route("POST", <<Lit("api"), Lit("folders")>>, TRUE, TRUE, {}),
       Route("PATCH", <<Lit("api"), Lit("folders"), Param("id")>>, TRUE, TRUE, {}),
       Route("DELETE", <<Lit("api"), Lit("folders"), Param("id")>>, TRUE, TRUE, {}),
       Route("POST", <<Lit("api"), Lit("files")>>, TRUE, TRUE, {400}),
       Route("GET", <<Lit("api"), Lit("files"), Param("id")>>, TRUE, TRUE, {404}),
       Route("GET", <<Lit("api"), Lit("files"), Param("id"), Lit("download")>>,
             TRUE, TRUE, {404}),
       Route("PATCH", <<Lit("api"), Lit("files"), Param("id")>>, TRUE, TRUE, {}),
       Route("DELETE", <<Lit("api"), Lit("files"), Param("id")>>, TRUE, TRUE, {}) >>

\* variant: the pattern is not anchored at the end of the path
RECURSIVE matchPath_unanchored(_, _)
matchPath_unanchored(routePath, requestPath) ==
    IF routePath = <<>> THEN TRUE
    ELSE IF requestPath = <<>> THEN FALSE
    ELSE /\ IF Head(routePath).kind = "param"
            THEN Head(requestPath) # ""
            ELSE Head(requestPath) = Head(routePath).name
         /\ matchPath_unanchored(Tail(routePath), Tail(requestPath))

\* matchPath(routePath, requestPath): the regular expression ^...$ built from the route
\* path, every ':name' replaced by ([^/]+), matched against the pathname; FALSE is null
RECURSIVE matchPath(_, _)
matchPath(routePath, requestPath) ==
    IF routePath = <<>> THEN requestPath = <<>>
    ELSE IF requestPath = <<>> THEN FALSE
    ELSE /\ IF Head(routePath).kind = "param"
            THEN Head(requestPath) # ""
            ELSE Head(requestPath) = Head(routePath).name
         /\ matchPath(Tail(routePath), Tail(requestPath))

\* the loop of Router.handle: the index of the route whose handler is called, from
\* route i on; 0 when the loop ends without a call (return null)
RECURSIVE handle(_, _, _)
handle(i, method, pathname) ==
    IF i > Len(Routes) THEN 0
    ELSE IF Routes[i].method = method /\ matchPath(Routes[i].path, pathname) THEN i
    ELSE handle(i + 1, method, pathname)

Methods == {"GET", "POST", "PATCH", "DELETE", "PUT"}
Segments == {"", "api", "login", "logout", "user", "entries", "folders", "files",
             "download", "7"}

\* a request other than OPTIONS arrives: any method, any pathname, a token that
\* verifyToken accepts or not
InitRouter ==
    /\ InitStore
    /\ client = NoClient
    /\ \E method \in Methods, pathname \in SeqsOf(Segments, 1, MaxSegs),
          valid \in BOOLEAN :
            plan = [mode |-> "router", method |-> method, pathname |-> pathname,
                    valid |-> valid, at |-> "handle", route |-> 0,
                    dispatched |-> <<>>, ops |-> 0, status |-> 0]

\* router.handle(request) up to the call of the handler, or its return of null, which
\* fetch answers with errorResponse('Not Found', 404)
fetch_handle ==
    /\ plan.mode = "router" /\ plan.at = "handle"
    /\ LET r == handle(1, plan.method, plan.pathname)
       IN IF r = 0
          THEN plan' = [plan EXCEPT !.at = "done", !.status = 404]
          ELSE plan' = [plan EXCEPT !.at = "handler", !.route = r,
                                    !.dispatched = Append(@, r)]

\* const token = auth.extractToken(request); if (!auth.verifyToken(token)) return 401
handler_verifyToken ==
    /\ plan.mode = "router" /\ plan.at = "handler"
    /\ Routes[plan.route].auth
    /\ IF plan.valid
       THEN plan' = [plan EXCEPT !.at = "body"]
       ELSE plan' = [plan EXCEPT !.at = "done", !.status = 401]

\* the rest of the handler: it answers 200 after its store and backend calls, or with
\* an error response of its own (400 before any such call), or it throws and fetch
\* answers 500
handler_body ==
    /\ plan.mode = "router"
    /\ \/ plan.at = "body"
       \/ plan.at = "handler" /\ ~Routes[plan.route].auth
    /\ LET route == Routes[plan.route]
           n == IF route.ops THEN 1 ELSE 0
       IN \/ plan' = [plan EXCEPT !.at = "done", !.status = 200, !.ops = n]
          \/ \E status \in route.own :
                plan' = [plan EXCEPT !.at = "done", !.status = status,
                                     !.ops = IF status = 400 THEN 0 ELSE n]
          \/ \E done \in {0, n} :
                plan' = [plan EXCEPT !.at = "done", !.status = 500, !.ops = done]

NextRouter ==
    /\ \/ fetch_handle
       \/ handler_verifyToken
       \/ handler_body
    /\ UNCHANGED <<files, file_chunks, temp_chunks, nextFileId, remote, pc, loc,
                   uploaded, committed, client>>

SpecRouter == InitRouter /\ [][NextRouter]_vars

(* ---------------------------------------------------------------------- *)
(* Properties                                                              *)
(* ---------------------------------------------------------------------- *)
Returned(p, op) == pc[p] = "done" /\ loc[p].op = op

\* C1: a download that follows a successful single-shot upload of the same file, with no
\* remote or store fault during the download, returns exactly the uploaded bytes and
\* reports their length as the size
C1_RoundTrip ==
    \A p \in Procs :
        (Returned(p, "downloadFile") /\ loc[p].following
            /\ loc[p].err \notin {"RemoteGet", "Db"})
        => /\ loc[p].result = "ok"
           /\ \E u \in uploaded : /\ u.id = loc[p].fileId
                                  /\ loc[p].data = u.data
                                  /\ loc[p].fileSize = Len(u.data)

\* C2: a single-shot upload that returns an error has left no File row and no FileChunk row
C2_FailedUploadLeavesNoRows ==
    \A p \in Procs :
        (Returned(p, "uploadFile") /\ loc[p].result = "error")
        => /\ getFileById(loc[p].fileId) = <<>>
           /\ getFileChunks(loc[p].fileId) = <<>>

\* C3: a merge that finds fewer staged chunks than the declared count fails with the
\* incomplete-upload error (with the store's error when the staged rows could not be
\* read) and creates no File row, hence no FileChunk row
C3_IncompleteMergeFails ==
    \A p \in Procs :
        (Returned(p, "mergeFileChunks") /\ loc[p].staged < loc[p].expected)
        => /\ loc[p].result = "error"
           /\ loc[p].err \in Incomplete \cup {"Db"}
           /\ loc[p].fileId = 0

\* C3 happens: one chunk staged, two declared, the merge has failed on the count
C3_Witness ==
    \E p \in Procs :
        /\ Returned(p, "mergeFileChunks")
        /\ loc[p].staged > 0
        /\ loc[p].staged < loc[p].expected
        /\ loc[p].err = "CountMismatch"
        /\ files = <<>>

\* C4: a merge that fails after it created the File row does not leave that File with
\* only part of the staged chunks promoted
C4_NoHalfPromotedFile ==
    \A p \in Procs :
        (Returned(p, "mergeFileChunks") /\ loc[p].result = "error" /\ loc[p].fileId # 0)
        => ~(/\ getFileById(loc[p].fileId) # <<>>
             /\ Len(getFileChunks(loc[p].fileId)) < loc[p].staged)

C7_ContiguousIndices ==
    \A f \in committed :
        Indices(getFileChunks(f)) = 0..(Len(getFileChunks(f)) - 1)

\* C8: the sizes of the chunks of every committed File add up to the size of the File
C8_SizesAddUp ==
    \A f \in committed :
        \A j \in 1..Len(files) :
            files[j].id = f => SumSizes(getFileChunks(f)) = files[j].size

\* C9: when no request is in flight every File row has at least one FileChunk row
C9_EveryFileHasAChunk ==
    (\A p \in Procs : pc[p] \in {"idle", "done"})
    => \A j \in 1..Len(files) : getFileChunks(files[j].id) # <<>>

\* C10: a successful single-shot upload of zero bytes made one remote put and has
\* exactly one FileChunk row, with index 0 and size 0
C10_EmptyFileOneChunk ==
    \A p \in Procs :
        (Returned(p, "uploadFile") /\ loc[p].result = "ok" /\ loc[p].fileSize = 0)
        => /\ loc[p].expected = 1
           /\ Len(getFileChunks(loc[p].fileId)) = 1
           /\ \A j \in 1..Len(file_chunks) :
                file_chunks[j].file_id = loc[p].fileId
                    => file_chunks[j].chunk_index = 0 /\ file_chunks[j].size = 0

\* C11: for every total size and every positive chunk size, the finished chunk plan has
\* sizes that add up to the total size, indices 0, 1, ..., k-1 in ascending order, and
\* no chunk larger than the chunk size
C11_ChunkPlan ==
    (plan.mode # "none" /\ plan.done)
    => /\ SumSizes(plan.chunks) = plan.totalSize
       /\ \A j \in 1..Len(plan.chunks) :
            /\ plan.chunks[j].index = j - 1
            /\ plan.chunks[j].size <= plan.maxChunkSize

\* C11 happens: the upload loop has planned several chunks, the last one shorter
C11_Witness ==
    /\ plan.mode = "uploadFile"
    /\ plan.done
    /\ Len(plan.chunks) >= 2
    /\ plan.chunks[Len(plan.chunks)].size < plan.maxChunkSize

\* the staged rows of one (upload_id, chunk_index) pair
RowsOf(uploadId, chunkIndex) ==
    SelectSeq(temp_chunks, LAMBDA r : r.upload_id = uploadId /\ r.chunk_index = chunkIndex)

\* C12: no (upload_id, chunk_index) pair ever has two TempChunk rows, and when
\* uploadFileChunk returns from a call for a pair that was staged already, exactly one
\* row exists for the pair: the new one when the call succeeded (overwrite), the old one
\* when it failed (rejected)
C12_StagingIdempotent ==
    /\ \A j, k \in 1..Len(temp_chunks) :
            (/\ temp_chunks[j].upload_id = temp_chunks[k].upload_id
             /\ temp_chunks[j].chunk_index = temp_chunks[k].chunk_index) => j = k
    /\ \A p \in Procs :
            (Returned(p, "uploadFileChunk") /\ loc[p].dup)
            => LET rows == RowsOf(loc[p].uploadId, loc[p].chunkIndex)
               IN /\ Len(rows) = 1
                  /\ (rows[1].telegram_file_id \in loc[p].put) <=> (loc[p].result = "ok")

\* C12 happens: a second call for a staged pair has succeeded and its row replaced the old
C12_Witness ==
    \E p \in Procs :
        /\ Returned(p, "uploadFileChunk")
        /\ loc[p].dup
        /\ loc[p].result = "ok"
        /\ Len(RowsOf(loc[p].uploadId, loc[p].chunkIndex)) = 1
        /\ Handles(RowsOf(loc[p].uploadId, loc[p].chunkIndex)) = loc[p].put

\* C13: when cleanupFailedUpload is called a second time right after a cleanup of the same
\* upload id succeeded, the second call, unless the store fails, succeeds and reports
\* zero cleared chunks
C13_SecondCleanupReportsZero ==
    \A p \in Procs :
        (/\ client.phase = "cleaned2"
         /\ Returned(p, "cleanupFailedUpload")
         /\ loc[p].cleanup # "failed")
        => /\ loc[p].result = "ok"
           /\ loc[p].cleared = 0

\* C14: cleanupFailedUpload calls the remote delete for every staged chunk of the upload
\* id before it deletes the rows, and once the row deletion has gone through no TempChunk
\* row of the upload id is left and all of them are counted as cleared, although none
\* of the remote deletes removed its object (the rows stay only when the store itself
\* fails to delete them)
C14_CleanupDeletesAllRows ==
    \A p \in Procs :
        /\ pc[p] = "cl_deleteTempChunks"
            => /\ loc[p].deleted = Handles(loc[p].list)
               /\ loc[p].list = getTempChunks(loc[p].uploadId)
        /\ (pc[p] = "done" /\ loc[p].cleanup = "ok")
            => /\ getTempChunks(loc[p].uploadId) = <<>>
               /\ Cardinality(loc[p].deleted) = loc[p].cleared
               /\ loc[p].cleared > 0
               /\ loc[p].deleted \subseteq DOMAIN remote

\* C14 happens: two chunks were staged, the remote delete was called for both and removed
\* neither object, and the rows are gone
C14_Witness ==
    \E p \in Procs :
        /\ Returned(p, "cleanupFailedUpload")
        /\ loc[p].cleanup = "ok"
        /\ loc[p].cleared = 2
        /\ Cardinality(loc[p].deleted) = 2
        /\ loc[p].deleted \subseteq DOMAIN remote
        /\ getTempChunks(loc[p].uploadId) = <<>>

\* C15: deleteFile, unless a store call fails, returns normally, and then the File row and
\* every FileChunk row of the file are gone, although the remote delete called for each
\* chunk handle removed no object
C15_DeleteFileCascades ==
    \A p \in Procs :
        (Returned(p, "deleteFile") /\ loc[p].err # "Db")
        => /\ loc[p].result = "ok"
           /\ getFileById(loc[p].fileId) = <<>>
           /\ getFileChunks(loc[p].fileId) = <<>>
           /\ Cardinality(loc[p].deleted) = loc[p].staged
           /\ loc[p].deleted \subseteq DOMAIN remote

\* C15 happens: a File with two chunks was deleted, its rows are gone and the two remote
\* objects are still there
C15_Witness ==
    \E p \in Procs :
        /\ Returned(p, "deleteFile")
        /\ loc[p].result = "ok"
        /\ loc[p].staged = 2
        /\ Cardinality(loc[p].deleted) = 2
        /\ loc[p].deleted \subseteq DOMAIN remote
        /\ files = <<>>
        /\ file_chunks = <<>>

\* C16: the chunks 0..N-1 of a file were uploaded with uploadFileChunk in some order and
\* merged; the download that follows, unless the store or the remote backend fails,
\* returns the chunks put together in ascending index order, which is the original file
C16_AnyOrderReassembles ==
    \A p \in Procs :
        (/\ client.phase = "downloaded"
         /\ Returned(p, "downloadFile")
         /\ loc[p].err \notin {"Db", "RemoteGet"})
        => /\ loc[p].result = "ok"
           /\ loc[p].data = client.data
           /\ Indices(getFileChunks(client.fileId)) = 0..(client.n - 1)

\* C16 happens: chunk 1 was uploaded before chunk 0 and the download returned the file
C16_Witness ==
    \E p \in Procs :
        /\ client.phase = "downloaded"
        /\ Returned(p, "downloadFile")
        /\ loc[p].result = "ok"
        /\ Len(client.order) >= 2
        /\ client.order[1] = 1
        /\ client.order[2] = 0
        /\ loc[p].data = client.data

\* C17: a download that runs while the File is being uploaded or merged sees the File
\* with all of its chunks or not at all: when it has returned bytes for a File of a
\* single-shot upload, they are the uploaded bytes, and the chunks it returned bytes for
\* are as many as the File has when no upload or merge is in flight
C17_NoTornRead ==
    \A p \in Readers :
        (Returned(p, "downloadFile") /\ loc[p].result = "ok")
        => /\ \A u \in uploaded : u.id = loc[p].fileId => loc[p].data = u.data
           /\ (\A w \in Procs : pc[w] \in {"idle", "done"})
                => (getFileById(loc[p].fileId) # <<>>
                        => loc[p].staged = Len(getFileChunks(loc[p].fileId)))

\* C18: when uploadFile or uploadFileChunk has returned an error, every remote object the
\* call put is referenced by a TempChunk or FileChunk row, or the call has called the
\* remote delete for it
C18_NoOrphanedObjects ==
    \A p \in Procs :
        (/\ pc[p] = "done"
         /\ loc[p].op \in {"uploadFile", "uploadFileChunk"}
         /\ loc[p].result = "error")
        => \A h \in loc[p].put :
                \/ h \in Handles(temp_chunks) \cup Handles(file_chunks)
                \/ h \in loc[p].deleted

\* C19: a single-shot upload of a file larger than MAX_FILE_SIZE returns the size-limit
\* error without having put any remote object or created a File row; a file of
\* MAX_FILE_SIZE bytes or fewer is not rejected for its size
C19_SizeCeiling ==
    \A p \in Procs :
        Returned(p, "uploadFile")
        => /\ loc[p].fileSize > MAX_FILE_SIZE
                => /\ loc[p].result = "error"
                   /\ loc[p].err = "SizeLimit"
                   /\ loc[p].put = {}
                   /\ loc[p].fileId = 0
           /\ loc[p].fileSize <= MAX_FILE_SIZE => loc[p].err # "SizeLimit"

\* C19 happens: a file one byte over the ceiling was rejected, nothing put, nothing created
C19_Witness ==
    \E p \in Procs :
        /\ Returned(p, "uploadFile")
        /\ loc[p].fileSize = MAX_FILE_SIZE + 1
        /\ loc[p].err = "SizeLimit"
        /\ loc[p].put = {}
        /\ remote = <<>>
        /\ files = <<>>
        /\ file_chunks = <<>>

\* C20: a download never returns, as a success, bytes whose total length differs from the
\* size of the File row (the mismatch is reported as an error instead)
C20_LengthMismatchReported ==
    \A p \in Procs :
        (Returned(p, "downloadFile") /\ loc[p].result = "ok")
        => Len(loc[p].data) = loc[p].fileSize


\* the (chunk_index, remote handle, size) triples of a list of chunk rows
Triples(rows) ==
    [j \in 1..Len(rows) |-> <<rows[j].chunk_index, rows[j].telegram_file_id, rows[j].size>>]

\* the other one of the two workers
Other(p) == CHOOSE q \in AllProcs : q # p

\* what the merge of worker p commits is made of the rows of its own session only: before
\* the staged rows are deleted the FileChunk rows are the session's TempChunk rows, and
\* when the merge has returned the File holds the declared number of chunks, each one an
\* object with the bytes of that session
OwnContent(p) ==
    LET l == loc[p]
        rows == getFileChunks(l.fileId)
    IN /\ (pc[p] = "mg_deleteTempChunks")
            => Triples(rows) = Triples(getTempChunks(l.uploadId))
       /\ (Returned(p, "mergeFileChunks") /\ l.result = "ok")
            => /\ Len(rows) = l.expected
               /\ \A j \in 1..Len(rows) :
                    /\ remote[rows[j].telegram_file_id] = SessionData(l.uploadId)
                    /\ rows[j].size = Len(SessionData(l.uploadId))
               /\ getFileById(l.fileId)
                    = <<[id |-> l.fileId, size |-> l.expected * Len(SessionData(l.uploadId))]>>
               /\ getTempChunks(l.uploadId) = <<>>

C22_TempChunksEventuallyLeave ==
    \A h \in 1..MaxRemote :
        (h \in Handles(temp_chunks)) ~> (h \notin Handles(temp_chunks))

\* C23: a merge creates one File row; while it copies, the FileChunk rows of that File
\* are the staged rows copied so far, with their chunk_index, remote handle and size;
\* when all are copied they are the TempChunk rows of the upload_id, one for one; and
\* when the merge has returned successfully the File row is the only one the merge
\* created, it has one FileChunk row per staged row, and no TempChunk row of the
\* upload_id is left
C23_MergePromotesStagedRows ==
    \A p \in Procs :
        LET l == loc[p]
            rows == getFileChunks(l.fileId)
        IN /\ (pc[p] = "mg_createFileChunk")
                => /\ Triples(rows) = SubSeq(Triples(l.list), 1, l.i)
                   /\ Len(getFileById(l.fileId)) = 1
           /\ (pc[p] = "mg_deleteTempChunks")
                => /\ Triples(rows) = Triples(getTempChunks(l.uploadId))
                   /\ Len(rows) = l.staged
           /\ (Returned(p, "mergeFileChunks") /\ l.result = "ok")
                => /\ Len(getFileById(l.fileId)) = 1
                   /\ nextFileId = l.fileId + 1
                   /\ Len(rows) = l.staged
                   /\ Indices(rows) \subseteq 0..MaxIndex
                   /\ Cardinality(Handles(rows)) = l.staged
                   /\ getTempChunks(l.uploadId) = <<>>

\* C23 happens: a merge of two staged chunks, staged with index 1 first, has returned
C23_Witness ==
    \E p \in Procs :
        /\ Returned(p, "mergeFileChunks")
        /\ loc[p].result = "ok"
        /\ loc[p].staged = 2
        /\ getFileChunks(loc[p].fileId)[1].chunk_index = 1

\* C24: in the chunk plan of the upload loop no chunk reaches past the end of the file
\* (offset + length <= totalSize), and when the plan is complete the last chunk's length
\* is totalSize mod maxChunkSize, or maxChunkSize when that remainder is zero
C24_PlanStaysWithinTotal ==
    (plan.mode = "uploadFile")
    => /\ \A j \in 1..Len(plan.chunks) :
            /\ plan.chunks[j].offset + plan.chunks[j].size <= plan.totalSize
            /\ plan.chunks[j].size <= plan.maxChunkSize
       /\ (plan.done /\ plan.chunks # <<>>)
            => plan.chunks[Len(plan.chunks)].size
                 = IF plan.totalSize % plan.maxChunkSize = 0
                   THEN plan.maxChunkSize
                   ELSE plan.totalSize % plan.maxChunkSize

\* C24 happens: a complete plan of several chunks of a file whose size is a multiple of
\* the chunk size, the last chunk a full one that ends at the end of the file
C24_Witness ==
    /\ plan.mode = "uploadFile"
    /\ plan.done
    /\ Len(plan.chunks) >= 2
    /\ plan.totalSize % plan.maxChunkSize = 0
    /\ plan.chunks[Len(plan.chunks)].size = plan.maxChunkSize
    /\ plan.chunks[Len(plan.chunks)].offset + plan.maxChunkSize = plan.totalSize

\* C25: the upload loop goes on to chunk i only when every chunk before it was put, and
\* a single-shot upload that returns with fewer chunks put than the file has was aborted
\* by the failed put: it reports that error, has created no File row, and no FileChunk
\* row refers to an object it has put
C25_FailedPutAborts ==
    \A p \in Procs :
        LET l == loc[p]
        IN /\ (pc[p] = "uf_uploadChunk")
                => /\ Cardinality(l.put) = l.i
                   /\ l.fileId = 0
           /\ (Returned(p, "uploadFile") /\ Cardinality(l.put) < l.expected)
                => /\ l.result = "error"
                   /\ l.err = "ChunkUploadFailed"
                   /\ l.fileId = 0
                   /\ Handles(file_chunks) \cap l.put = {}

\* C25 happens: the put of the second chunk of a two-chunk file has failed, the first
\* chunk is in the remote backend and the tables are empty
C25_Witness ==
    \E p \in Procs :
        /\ Returned(p, "uploadFile")
        /\ loc[p].err = "ChunkUploadFailed"
        /\ loc[p].expected = 2
        /\ Cardinality(loc[p].put) = 1
        /\ files = <<>>
        /\ file_chunks = <<>>

\* C26: a request holds the id of a File row it has created only when, for a single-shot
\* upload, every chunk of the file has been put, and for a merge, the staged chunks have
\* been read and their count found equal to the declared one; every FileChunk row belongs
\* to a File row that exists; and the FileChunk rows a single-shot upload has written so
\* far are those of indices 0, 1, ... in that order
C26_CommitOrder ==
    /\ \A p \in Procs :
        LET l == loc[p]
            rows == getFileChunks(l.fileId)
        IN /\ (l.op = "uploadFile" /\ l.fileId # 0)
                => Cardinality(l.put) = l.expected
           /\ (l.op = "mergeFileChunks" /\ l.fileId # 0)
                => (l.staged > 0 /\ l.staged = l.expected)
           /\ (pc[p] = "uf_createFileChunk")
                => /\ Len(getFileById(l.fileId)) = 1
                   /\ Len(rows) = l.i
                   /\ \A j \in 1..Len(rows) : rows[j].chunk_index = j - 1
           /\ (pc[p] = "mg_createFileChunk")
                => /\ Len(getFileById(l.fileId)) = 1
                   /\ Len(rows) = l.i
    /\ \A j \in 1..Len(file_chunks) : getFileById(file_chunks[j].file_id) # <<>>

\* C26 happens: a single-shot upload of a two-chunk file has created the File row and the
\* FileChunk row of index 0, the row of index 1 is still to be written
C26_Witness ==
    \E p \in Procs :
        /\ pc[p] = "uf_createFileChunk"
        /\ loc[p].expected = 2
        /\ loc[p].i = 1
        /\ Len(getFileChunks(loc[p].fileId)) = 1

\* C27: within one transfer loop at most one remote request is in flight, the requests
\* are issued in ascending chunk index (for an upload: 0, 1, 2, ...), and a request is
\* issued only when every request issued before it has completed
C27_OneRequestInFlight ==
    (plan.mode \in {"uploadLoop", "downloadLoop"})
    => /\ Cardinality(plan.inflight) <= 1
       /\ \A j \in 1..Len(plan.issued) :
            /\ (j < Len(plan.issued)) => plan.issued[j] \in plan.completed
            /\ (j < Len(plan.issued)) => plan.issued[j] < plan.issued[j + 1]
            /\ (plan.mode = "uploadLoop") => plan.issued[j] = j - 1

\* C27 happens: the request for the second chunk is in flight, the first has completed
C27_Witness ==
    /\ plan.mode \in {"uploadLoop", "downloadLoop"}
    /\ Len(plan.issued) = 2
    /\ plan.inflight = {plan.issued[2]}
    /\ plan.completed = {plan.issued[1]}

\* C28: a download of a file id that has no File row ends in its first step: unless the
\* store itself fails it returns null, which the route answers 404, with no remote get
\* issued, no byte returned, and the tables and the remote backend left as they were
C28_MissingFileNotFound ==
    [][\A p \in Procs :
          (/\ pc[p] = "idle"
           /\ loc'[p].op = "downloadFile"
           /\ getFileById(loc'[p].fileId) = <<>>
           /\ loc'[p].err # "Db")
          => /\ pc'[p] = "done"
             /\ loc'[p].result = "null"
             /\ downloadStatus(loc'[p].result) = 404
             /\ loc'[p].gets = 0
             /\ loc'[p].data = <<>>
             /\ UNCHANGED <<files, file_chunks, temp_chunks, nextFileId, remote>>]_vars

\* C28 happens: a download of the id of a file that was uploaded and then deleted has
\* returned null, the chunks of that file still being in the remote backend
C28_Witness ==
    \E p \in Procs :
        /\ Returned(p, "downloadFile")
        /\ loc[p].result = "null"
        /\ loc[p].fileId < nextFileId
        /\ remote # <<>>

\* C29: a download of a File that has no FileChunk row fails, unless the store itself
\* fails, with the missing-chunks error, which the route answers 500; no remote get was
\* issued and no byte is returned
C29_NoChunksIsAnError ==
    \A p \in Procs :
        LET l == loc[p]
        IN (/\ Returned(p, "downloadFile")
            /\ getFileById(l.fileId) # <<>>
            /\ getFileChunks(l.fileId) = <<>>
            /\ l.err # "Db")
           => /\ l.result = "error"
              /\ l.err = "MissingChunks"
              /\ downloadStatus(l.result) = 500
              /\ l.gets = 0
              /\ l.data = <<>>

\* C29 happens: the File row of an upload of zero bytes exists without a FileChunk row
\* and a download of it has failed
C29_Witness ==
    \E p \in Procs :
        /\ Returned(p, "downloadFile")
        /\ loc[p].err = "MissingChunks"
        /\ getFileById(loc[p].fileId) # <<>>
        /\ loc[p].fileId \in committed

\* C30: the put of uploadFileChunk checks the chunk against the per-object ceiling before
\* it contacts the remote backend: no request is past its put holding a chunk larger than
\* the ceiling, no object larger than the ceiling is in the remote backend, and no staged
\* row records a size above it
C30_PutValidatesSize ==
    /\ \A p \in Procs :
        (pc[p] = "ufc_createTempChunk") => Len(loc[p].data) <= chunkSize
    /\ \A h \in 1..Len(remote) : Len(remote[h]) <= chunkSize
    /\ \A j \in 1..Len(temp_chunks) : temp_chunks[j].size <= chunkSize

\* C31: an uploadFileChunk request whose remote put fails ends there with the
\* chunk-upload error: the request has put no object, and the TempChunk rows, those of
\* its own upload_id included, and the remote backend are as they were before the call
C31_FailedChunkPutStagesNothing ==
    [][\A p \in Procs :
          (/\ pc[p] = "idle"
           /\ loc'[p].op = "uploadFileChunk"
           /\ loc'[p].err = "ChunkUploadFailed")
          => /\ pc'[p] = "done"
             /\ loc'[p].result = "error"
             /\ loc'[p].put = {}
             /\ UNCHANGED <<temp_chunks, remote, files, file_chunks>>]_vars

\* C31 happens: with a chunk of the upload_id already staged, the put of another chunk
\* has failed and the staged row is still the only one
C31_Witness ==
    \E p \in Procs :
        /\ Returned(p, "uploadFileChunk")
        /\ loc[p].err = "ChunkUploadFailed"
        /\ Len(getTempChunks(loc[p].uploadId)) = 1
        /\ ~tempChunkExists(loc[p].uploadId, loc[p].chunkIndex)

\* the next step of worker p belongs to uploadFileChunk or to cleanupFailedUpload, be it
\* called by a client or by the catch block of a merge
AbortOrStageStep(p) ==
    \/ pc[p] = "idle" /\ loc'[p].op \in {"uploadFileChunk", "cleanupFailedUpload"}
    \/ pc[p] \in {"ufc_createTempChunk", "cl_getTempChunks", "cl_deleteTempChunks"}

\* C32: no step of uploadFileChunk and no step of cleanupFailedUpload, whether it succeeds
\* or fails, changes the files table, the file_chunks table or the id counter of files
C32_AbortCreatesNoFile ==
    [][\A p \in Procs :
          AbortOrStageStep(p) => UNCHANGED <<files, file_chunks, nextFileId>>]_vars

\* C32 happens: with a committed File in the tables, a cleanup called by a client has
\* cleared the rows staged afterwards and the File and its chunk rows are still there
C32_Witness ==
    \E p \in Procs :
        /\ Returned(p, "cleanupFailedUpload")
        /\ loc[p].cleared >= 1
        /\ files # <<>>
        /\ file_chunks # <<>>

\* C34: the remote delete is never called for a handle that a FileChunk row refers to:
\* the handles a request has called deleteTelegramFileById for are handles of no
\* FileChunk row
C34_NoDeleteOfPromotedChunk ==
    \A p \in Procs : loc[p].deleted \cap Handles(file_chunks) = {}

\* the errors a merge can fail with before its cleanup runs
MergeErrors == Incomplete \cup {"Db"}

\* C36: the step in which cleanupFailedUpload returns never raises an error of its own:
\* called by a client it returns a result, success = false exactly when the store failed
\* while the rows were read or deleted; called by the catch block of a merge, the merge
\* then fails with the error it had before the cleanup ran, whatever the cleanup's outcome
C36_CleanupNeverThrows ==
    [][\A p \in Procs :
          (pc[p] \in {"cl_getTempChunks", "cl_deleteTempChunks"} /\ pc'[p] = "done")
          => IF loc[p].op = "mergeFileChunks"
             THEN /\ loc'[p].result = "error"
                  /\ loc'[p].err = loc[p].err
                  /\ loc'[p].err \in MergeErrors
             ELSE /\ loc'[p].err = ""
                  /\ loc'[p].result \in {"ok", "fail"}
                  /\ (loc'[p].result = "fail") <=> (loc'[p].cleanup = "failed")]_vars

\* C36 happens: a merge has failed on the chunk count, the store has failed during its
\* cleanup, and the error returned is the count mismatch
C36_Witness ==
    \E p \in Procs :
        /\ Returned(p, "mergeFileChunks")
        /\ loc[p].cleanup = "failed"
        /\ loc[p].err = "CountMismatch"
        /\ getTempChunks(loc[p].uploadId) # <<>>

\* the handles the FileChunk rows of a File refer to
HandlesOf(fileId) == Handles(getFileChunks(fileId))

\* C33: the merges of one upload_id commit at most one File over the chunks staged for
\* it: no two Files that merges have returned refer to the same remote handle
C33_OneFilePerUpload ==
    \A f1 \in committed, f2 \in committed :
        f1 # f2 => HandlesOf(f1) \cap HandlesOf(f2) = {}

\* C35: a merge that succeeds deletes only TempChunk rows it has promoted: every row of
\* its upload_id that its deleteTempChunks removes has a FileChunk row of the merge's
\* File with the same chunk_index and handle
C35_DeletedRowsWerePromoted ==
    [][\A p \in AllProcs :
          (pc[p] = "mg_deleteTempChunks" /\ pc'[p] = "done" /\ loc'[p].result = "ok")
          => \A j \in 1..Len(temp_chunks) :
                temp_chunks[j].upload_id = loc[p].uploadId
                => \E k \in 1..Len(file_chunks) :
                      /\ file_chunks[k].file_id = loc[p].fileId
                      /\ file_chunks[k].chunk_index = temp_chunks[j].chunk_index
                      /\ file_chunks[k].telegram_file_id = temp_chunks[j].telegram_file_id]_vars

\* the files deleteFile has been called with
Called == {plan.calls[j] : j \in 1..Len(plan.calls)}

\* the files that are in folder g or below it
FilesBelow(g) == {f \in TreeFileIds : InSubtree(plan.parent_id, plan.folder_id[f], g)}

\* what deleteFolder has done so far is right: no file is passed to deleteFile twice and
\* none outside the subtree; a file of a folder is deleted after the files of the folders
\* below it; a folder record is deleted after every file in and below it went through
\* deleteFile; a run that returns has deleted the folder record, a run that raises has not
DeleteFolderSafe ==
    /\ \A i \in 1..Len(plan.calls), j \in 1..Len(plan.calls) :
          i # j => plan.calls[i] # plan.calls[j]
    /\ Called \subseteq FilesBelow(plan.root)
    /\ \A i \in 1..Len(plan.calls), j \in 1..Len(plan.calls) :
          LET gi == plan.folder_id[plan.calls[i]]
              gj == plan.folder_id[plan.calls[j]]
          IN (gi # gj /\ InSubtree(plan.parent_id, gi, gj)) => i < j
    /\ \A g \in FolderIds \ plan.folderRows : FilesBelow(g) \subseteq Called
    /\ plan.result = "ok" => /\ Called = FilesBelow(plan.root)
                             /\ plan.root \notin plan.folderRows
    /\ plan.result = "error" => plan.root \in plan.folderRows

\* C37: deleteFolder on a finite acyclic tree comes to an end, and at every moment what
\* it has done is right (DeleteFolderSafe): deleteFile exactly once per file of the subtree,
\* subfolders first, then the folder record; a failure raises and leaves the folder record
C37_DeleteFolderTerminates ==
    /\ <>(plan.result # "running")
    /\ []DeleteFolderSafe

\* C37 happens: a folder with a file of its own and a file in a subfolder has been deleted
C37_Witness ==
    /\ plan.mode = "deleteFolder"
    /\ plan.result = "ok"
    /\ Len(plan.calls) = 2
    /\ plan.folder_id[plan.calls[2]] = plan.root
    /\ plan.folder_id[plan.calls[1]] # plan.root

\* the route the request was dispatched to is an /api route other than login and logout
ProtectedRoute(r) ==
    LET path == Routes[r].path
    IN /\ path[1] = Lit("api")
       /\ path \notin {<<Lit("api"), Lit("login")>>, <<Lit("api"), Lit("logout")>>}

\* C38: a request whose token verifyToken rejects, dispatched to an /api route other than
\* /api/login and /api/logout, performs no store or backend operation, and the answer
\* it gets is 401
C38_UnauthorizedTouchesNothing ==
    (/\ plan.mode = "router" /\ plan.route # 0
     /\ ProtectedRoute(plan.route) /\ ~plan.valid)
    => /\ plan.ops = 0
       /\ plan.at = "done" => plan.status = 401
       /\ plan.at # "body"

\* C38 happens: the download of a file was asked without a valid token and answered 401
C38_Witness ==
    /\ plan.mode = "router" /\ plan.at = "done" /\ ~plan.valid
    /\ plan.method = "GET" /\ plan.pathname = <<"api", "files", "7", "download">>
    /\ plan.status = 401 /\ plan.dispatched # <<>>

\* the route path matches the whole pathname: as many segments, literals equal, a
\* placeholder on a segment that is not empty
MatchesWhole(routePath, pathname) ==
    /\ Len(routePath) = Len(pathname)
    /\ \A k \in 1..Len(routePath) :
          IF routePath[k].kind = "param" THEN pathname[k] # ""
          ELSE pathname[k] = routePath[k].name

Eligible(r) ==
    Routes[r].method = plan.method /\ MatchesWhole(Routes[r].path, plan.pathname)

\* C39: once Router.handle has acted, at most one handler has been called, it is the
\* first registered route of the request's method whose pattern matches the whole
\* path, and when there is no such route no handler is called and the answer is 404
C39_FirstMatchDispatch ==
    (plan.mode = "router" /\ plan.at # "handle")
    => /\ Len(plan.dispatched) <= 1
       /\ plan.dispatched # <<>> =>
            /\ Eligible(plan.dispatched[1])
            /\ \A k \in 1..(plan.dispatched[1] - 1) : ~Eligible(k)
       /\ plan.dispatched = <<>> =>
            /\ \A k \in 1..Len(Routes) : ~Eligible(k)
            /\ plan.status = 404

\* C39 happens: a download path, which the route of /api/files/:id comes before in the
\* table, has been dispatched to the download route; and elsewhere nothing matched
C39_Witness ==
    /\ plan.mode = "router" /\ plan.at = "done"
    /\ plan.pathname = <<"api", "files", "7", "download">>
    /\ plan.dispatched = <<11>>
    /\ Routes[11].path = <<Lit("api"), Lit("files"), Param("id"), Lit("download")>>
====
